---- MODULE Spec2Model ----
(***************************************************************************)
(* State-machine model of pycaendaq:                                       *)
(*   - the channel-group resolver of the acquisition scripts               *)
(*     (daq_scope.py / daq_dpppha.py, main, "for group_name, group_dict"), *)
(*   - the acquisition loop of the frame-mode script (daq_scope.py) and of *)
(*     the per-channel-mode script (daq_dpppha.py),                        *)
(*   - the start/stop request handlers of the web server (app.py), its     *)
(*     log queue and reader threads, and the pipes of one subprocess,      *)
(*   - the start of a script: configuration file, channel parameters,      *)
(*   - the desktop GUI controller (gui_interface.py).                      *)
(* Strings that the code parses are sequences of one-character strings.    *)
(***************************************************************************)
EXTENDS Integers, Sequences, FiniteSets, TLC

VARIABLES
    \* ---- resolver (main, lines 50-90 of both acquisition scripts)
    channel_settings,     \* ordered mapping: sequence of group dicts
    gi,                   \* index of the next group the for loop visits
    all_active_channels,  \* the set() the loop updates
    channel_list,         \* sorted(list(all_active_channels)), <<>> before
    warned,               \* indices of the groups a message was printed for
    rpc,                  \* "loop" | "done"
    \* ---- acquisition run (main of daq_scope.py and of daq_dpppha.py)
    cfg,                  \* command line and general_settings of the run
    buffer_size,          \* effective capacity (after the clamp to n_events)
    apc,                  \* "setup" | "read" | "full" | "stop" | "exited"
    exit_reason,          \* why the loop was left, "" while it runs
    exit_status,          \* process exit status, None while it runs
    buffer_counter,       \* events since the last buffer-full handling
    trigger_id,           \* scope: id of the last frame; dpp: loop counter
    event_counter,        \* top-level daq_scope.py: events stored so far
    blocked,              \* ticks the current read_data call has been waiting
    dev_next_id,          \* scope: TRIGGER_ID the device gives the next frame
    waveform_buffer,      \* scope: [channel -> [1..buffer_size -> event tag]]
    buffers,              \* dpp: [channel -> [waveform: list, count: n]]
    accepted,             \* number of events appended so far
    now,                  \* wall clock, whole seconds since start_time
    current_file,         \* timestamp suffix of the current output file
    files,                \* [suffix -> [channel -> rows written]] on disk
    opened,               \* suffixes given to current_file, in order
    flushlog,             \* one record per flush performed
    left_with,            \* buffer_counter when the loop was left
    dev,                  \* device: connected, armed, disarm issued
    last_read,            \* outcome of the last read_data call
    prev_read,            \* outcome of the read_data call before that one
    temperature_buffer,   \* temperature rows not yet written, by event tag
    \* ---- web server (app.py, start_acquisition / stop_acquisition)
    daq_process,          \* global daq_process: None or index into procs
    procs,                \* subprocesses spawned so far, in order
    process_lock,         \* 0 when free, else the request thread holding it
    req,                  \* request threads: kind, position, response
    output_queue,         \* global output_queue: the messages not yet taken
    readers,              \* position of the reader thread of every subprocess
    last_output_file_basename, \* global of that name, NoName when None
    pipe,                 \* one subprocess, its two pipes and its reader
    \* ---- start of a script: configuration file and device parameters
    script,               \* "scope" | "dpp" | "top", "none" when not modelled
    config_file,          \* "ok" | "missing" | "unparseable"
    cpc,                  \* "load" | "resolve" | "connect" | "groups" | "done" | "exited"
    cgi,                  \* index of the next group (top: channel) configured
    devpar,               \* device: [channel -> [parameter -> value]]
    devops,               \* number of calls made on the device
    cstatus,              \* exit status of the script, None while it runs
    \* ---- desktop GUI (gui_interface.py, class DAQController)
    gprocess,             \* self.process: None or the number of a subprocess
    galive,               \* subprocesses started by the GUI that still run
    gcount,               \* number of subprocesses started so far
    start_enabled,        \* state of start_button is NORMAL
    stop_enabled,         \* state of stop_button is NORMAL
    gthreads,             \* reader threads: [pc, on], one per subprocess
    gpending,             \* threads whose after(0, on_acquisition_end) waits
    gpc,                  \* Tk main thread: "idle" | "stopping"
    gmsg                  \* the last dialog or outcome of a button handler

rvars == <<channel_settings, gi, all_active_channels, channel_list, warned, rpc>>

avars == <<cfg, buffer_size, apc, exit_reason, exit_status, buffer_counter,
           trigger_id, event_counter, blocked, dev_next_id, waveform_buffer, buffers, accepted, now,
           current_file, files, opened, flushlog, left_with, dev, last_read, prev_read,
           temperature_buffer>>

\* the log queue, the reader threads and the remembered output name
lvars == <<output_queue, readers, last_output_file_basename, pipe>>

wvars == <<daq_process, procs, process_lock, req, lvars>>

cvars == <<script, config_file, cpc, cgi, devpar, devops, cstatus>>

\* the variables of the components added after the first three
gvars == <<gprocess, galive, gcount, start_enabled, stop_enabled, gthreads,
           gpending, gpc, gmsg>>

xvars == <<cvars, gvars>>

vars == <<rvars, avars, wvars, xvars>>

\* The value of an argument that was not given (args.get(...) is None).
None == -1

\* The scripts: "scope" is src/pycaendaq/daq_scope.py, "dpp" is
\* src/pycaendaq/daq_dpppha.py, "top" is the top-level daq_scope.py.  The two
\* daq_scope.py read whole frames from the "scope" endpoint.
FrameMode(mode) == mode \in {"scope", "top"}

\* dict.get("channels") of a group without that key: a value no string equals.
NoChannels == <<"<None>">>

(***************************************************************************)
(* Bounds                                                                  *)
(***************************************************************************)
MaxGroups == 2

\* accepted events after which the model stops delivering events
MaxEvents == 5

\* seconds the wall clock can advance during a run
MaxTime == 3

\* configured buffer_size ranges over 1..MaxBuf
MaxBuf == 3

\* -n ranges over 0..MaxTarget (or is not given)
MaxTarget == 3

\* resolution of the model clock: `now` counts ticks of 1/TicksPerSecond s
TicksPerSecond == 2

\* request threads of the web server
MaxRequests == 3

\* subprocesses the web server spawns during one behaviour
MaxProcs == 2

\* messages the model of output_queue holds
MaxQueue == 1

\* requests served at a time by the server of SpecWebFair
FairWorkers == 2

\* lines a subprocess writes to its two pipes
MaxWrites == 3

\* lines a pipe holds before a write to it blocks
PipeCap == 2

(***************************************************************************)
(* String helpers (Python str semantics on character sequences)            *)
(***************************************************************************)
Digits == <<"0", "1", "2", "3", "4", "5", "6", "7", "8", "9">>

IsDigit(c) == \E d \in 1..10 : Digits[d] = c

DigitVal(c) == (CHOOSE d \in 1..10 : Digits[d] = c) - 1

\* First index i at which the two characters ".." start in s, 0 when absent
\* (the code's `".." in channels_str` and the scan of str.split("..")).
FindDotDot(s) ==
    IF \E i \in 1..(Len(s) - 1) : s[i] = "." /\ s[i + 1] = "."
    THEN CHOOSE i \in 1..(Len(s) - 1) :
            /\ s[i] = "." /\ s[i + 1] = "."
            /\ \A j \in 1..(i - 1) : ~(s[j] = "." /\ s[j + 1] = ".")
    ELSE 0

ContainsDotDot(s) == FindDotDot(s) # 0

\* channels_str.split(".."): left-to-right, non-overlapping separators.
RECURSIVE SplitDotDot(_)
SplitDotDot(s) ==
    LET i == FindDotDot(s) IN
    IF i = 0 THEN <<s>>
    ELSE <<SubSeq(s, 1, i - 1)>> \o SplitDotDot(SubSeq(s, i + 2, Len(s)))

\* int(text) succeeds: a non-empty run of decimal digits (the character set of
\* the model has no sign, blank or underscore).
IsIntText(s) == Len(s) > 0 /\ \A i \in 1..Len(s) : IsDigit(s[i])

\* int(text) for a text that IsIntText accepts.
RECURSIVE IntOf(_)
IntOf(s) ==
    IF Len(s) = 0 THEN 0
    ELSE 10 * IntOf(SubSeq(s, 1, Len(s) - 1)) + DigitVal(s[Len(s)])

(***************************************************************************)
(* Resolver: one group                                                     *)
(***************************************************************************)
\* list(range(start_channel, end_channel + 1)) as a set
RangeChannelsExclusive(start_channel, end_channel) == start_channel..(end_channel - 1)

RangeChannels(start_channel, end_channel) == start_channel..end_channel

\* `if not is_enabled:` (print "... is DISABLED. Skipping channels."; continue)
IsDisabledNever(is_enabled) == FALSE

IsDisabled(is_enabled) == ~is_enabled

\* Outcome of the body of the for loop for one group dict:
\* [ok |-> TRUE, chans |-> group_channels] when the group reaches
\* all_active_channels.update, [ok |-> FALSE, msg |-> ...] on every continue.
ParseGroup(group_dict) ==
    LET channels_str == group_dict.channels
        is_enabled == group_dict.chenable
    IN
    IF channels_str = NoChannels THEN [ok |-> FALSE, msg |-> "missing", chans |-> {}]
    ELSE IF IsDisabled(is_enabled)
         THEN [ok |-> FALSE, msg |-> "disabled", chans |-> {}]
    ELSE IF ContainsDotDot(channels_str) THEN
        LET limits == SplitDotDot(channels_str) IN
        IF Len(limits) # 2 THEN [ok |-> FALSE, msg |-> "format", chans |-> {}]
        ELSE IF ~IsIntText(limits[1]) \/ ~IsIntText(limits[2])
             THEN [ok |-> FALSE, msg |-> "parse", chans |-> {}]
        ELSE IF IntOf(limits[1]) > IntOf(limits[2])
             THEN [ok |-> FALSE, msg |-> "range", chans |-> {}]
        ELSE [ok |-> TRUE, msg |-> "",
              chans |-> RangeChannels(IntOf(limits[1]), IntOf(limits[2]))]
    ELSE IF ~IsIntText(channels_str)
         THEN [ok |-> FALSE, msg |-> "parse", chans |-> {}]
    ELSE [ok |-> TRUE, msg |-> "", chans |-> {IntOf(channels_str)}]

\* sorted(list(s)) for a finite set of integers
RECURSIVE SortedList(_)
SortedList(s) ==
    IF s = {} THEN <<>>
    ELSE LET m == CHOOSE x \in s : \A y \in s : x <= y
         IN <<m>> \o SortedList(s \ {m})

(***************************************************************************)
(* Resolver inputs                                                         *)
(***************************************************************************)
SingleSelectors == { <<"0">>, <<"2">>, <<"5">> }

RangeSelectors == { <<"0", ".", ".", "3">>, <<"1", ".", ".", "2">>,
                    <<"2", ".", ".", "2">> }

ListSelectors == { <<"0", ",", "2">> }

MalformedSelectors == { <<"2", ".", ".", "1">>,            \* start > end
                        <<"0", ".", ".", "1", ".", ".", "2">>,  \* three parts
                        <<"1", ".", ".", "a">>,            \* not an integer
                        <<"a">>, <<>> }

Selectors == SingleSelectors \cup RangeSelectors \cup ListSelectors
             \cup MalformedSelectors

GroupDicts == [channels : Selectors \cup {NoChannels}, chenable : BOOLEAN]

GroupSeqs == UNION { [1..n -> GroupDicts] : n \in 0..MaxGroups }

(***************************************************************************)
(* Resolver: state machine                                                 *)
(***************************************************************************)
\* The digitizer as the scripts drive it: the flags of the connection, the
\* kinds of operations issued so far in their order (ops, an operation that
\* repeats the previous one is not listed again), and the number of
\* sendswtrigger commands the current iteration issued before its read_data
\* call (trg).
DevOff ==
    [connected |-> FALSE, armed |-> FALSE, disarmed |-> FALSE, ops |-> <<>>,
     trg |-> 0]

Issue(d, op) ==
    [d EXCEPT !.ops = IF Len(@) > 0 /\ @[Len(@)] = op THEN @ ELSE Append(@, op)]

\* a start sequence that arms before it configures
DeviceSetupArmFirst(d) ==
    LET opened_ == Issue(Issue([d EXCEPT !.connected = TRUE], "connect"), "reset")
        armed_ == Issue([opened_ EXCEPT !.armed = TRUE], "arm")
        configured == Issue(armed_, "configure")
        selected == Issue(configured, "endpoint")
    IN Issue(selected, "start")

\* device.connect, dig.cmd.reset(), the parameter writes, the endpoint and
\* its data format, armacquisition, swstartacquisition.
DeviceSetup(d) ==
    LET opened_ == Issue(Issue([d EXCEPT !.connected = TRUE], "connect"), "reset")
        configured == Issue(opened_, "configure")
        selected == Issue(configured, "endpoint")
        armed_ == Issue([selected EXCEPT !.armed = TRUE], "arm")
    IN Issue(armed_, "start")

\* acqtriggersource (-s in the top-level daq_scope.py)
TrigSources == {"SwTrg", "TrgIn"}

\* `"SwTrg" in acqtriggersource` / `trig_source == "SwTrg"`
IsSwTrg(src) == src = "SwTrg"

\* a loop that never sends the software trigger
SwTriggersNever(src) == 0

\* `if "SwTrg" in acqtriggersource: dig.cmd.sendswtrigger()`: the number of
\* commands one iteration sends
SwTriggersSent(src) == IF IsSwTrg(src) THEN 1 ELSE 0

\* The head of one iteration of `while True`: the software trigger if it is
\* the trigger source, then the call of endpoint.read_data.
BeginRead(d, src) == Issue([d EXCEPT !.trg = SwTriggersSent(src)], "read")

\* The acquisition variables before a run exists.
AcqIdle ==
    /\ cfg = [mode |-> "none"]
    /\ buffer_size = 0
    /\ apc = "idle"
    /\ exit_reason = ""
    /\ exit_status = None
    /\ buffer_counter = 0
    /\ trigger_id = 0
    /\ event_counter = 0
    /\ blocked = 0
    /\ dev_next_id = 0
    /\ waveform_buffer = <<>>
    /\ buffers = <<>>
    /\ accepted = 0
    /\ now = 0
    /\ current_file = None
    /\ files = <<>>
    /\ opened = <<>>
    /\ flushlog = <<>>
    /\ left_with = None
    /\ dev = DevOff
    /\ last_read = "none"
    /\ prev_read = "none"
    /\ temperature_buffer = <<>>

\* The web server variables when no request was ever made.
\* last_output_file_basename = None
NoName == "<None>"

\* no subprocess with pipes is followed
PipeIdle == [sub |-> "none"]

\* the server after its start, serving at most `workers` requests at a time:
\* the other request threads are never given a request
WebIdleWith(workers) ==
    /\ daq_process = None
    /\ procs = <<>>
    /\ output_queue = <<>>
    /\ readers = <<>>
    /\ last_output_file_basename = NoName
    /\ process_lock = 0
    /\ req = [t \in 1..MaxRequests |->
                [kind |-> "none", pc |-> IF t <= workers THEN "idle" ELSE "off",
                 resp |-> None, saw_alive |-> FALSE, spawned |-> None]]

WebIdle == WebIdleWith(MaxRequests) /\ pipe = PipeIdle

\* No script start is modelled.
ConfigIdle ==
    /\ script = "none"
    /\ config_file = "ok"
    /\ cpc = "idle"
    /\ cgi = 1
    /\ devpar = <<>>
    /\ devops = 0
    /\ cstatus = None

\* DAQController.__init__: no subprocess, Start enabled, Stop disabled.
GuiIdle ==
    /\ gprocess = None
    /\ galive = {}
    /\ gcount = 0
    /\ start_enabled = TRUE
    /\ stop_enabled = FALSE
    /\ gthreads = <<>>
    /\ gpending = {}
    /\ gpc = "idle"
    /\ gmsg = ""

ResolverInit ==
    /\ AcqIdle
    /\ WebIdle
    /\ ConfigIdle
    /\ GuiIdle
    /\ channel_settings \in GroupSeqs
    /\ gi = 1
    /\ all_active_channels = {}
    /\ channel_list = <<>>
    /\ warned = {}
    /\ rpc = "loop"

\* an iteration that ends the loop (`break`) at a group it does not accept
ResolveGroupBreaks ==
    /\ rpc = "loop"
    /\ gi <= Len(channel_settings)
    /\ LET r == ParseGroup(channel_settings[gi]) IN
        /\ all_active_channels' =
              IF r.ok THEN all_active_channels \cup r.chans
              ELSE all_active_channels
        /\ warned' = IF r.ok THEN warned ELSE warned \cup {gi}
        /\ gi' = IF r.ok THEN gi + 1 ELSE Len(channel_settings) + 1
    /\ UNCHANGED <<xvars, channel_settings, channel_list, rpc, avars, wvars>>

\* One iteration of `for group_name, group_dict in channel_settings.items()`.
ResolveGroup ==
    /\ rpc = "loop"
    /\ gi <= Len(channel_settings)
    /\ LET r == ParseGroup(channel_settings[gi]) IN
        /\ all_active_channels' =
              IF r.ok THEN all_active_channels \cup r.chans
              ELSE all_active_channels
        /\ warned' = IF r.ok THEN warned ELSE warned \cup {gi}
    /\ gi' = gi + 1
    /\ UNCHANGED <<xvars, channel_settings, channel_list, rpc, avars, wvars>>

\* channel_list = sorted(list(all_active_channels)) after the loop.
ResolveFinish ==
    /\ rpc = "loop"
    /\ gi > Len(channel_settings)
    /\ channel_list' = SortedList(all_active_channels)
    /\ rpc' = "done"
    /\ UNCHANGED <<xvars, channel_settings, gi, all_active_channels, warned, avars, wvars>>

ResolverNext == ResolveGroup \/ ResolveFinish

SpecResolver == ResolverInit /\ [][ResolverNext]_vars


(***************************************************************************)
(* Acquisition: pure helpers                                               *)
(***************************************************************************)
\* if total_events is not None and buffer_size > total_events:
\*     buffer_size = total_events
ClampBufferSize(configured, total_events) ==
    IF total_events # None /\ configured > total_events
    THEN total_events ELSE configured

\* `total_events and trigger_id >= total_events` (0 and None are falsy)
TargetReached(total_events, tid) ==
    total_events # None /\ total_events # 0 /\ tid >= total_events

\* `max_duration and (time.time() - start_time) >= max_duration`
DurationReached(max_duration, elapsed_ticks) ==
    /\ max_duration # None /\ max_duration # 0
    /\ elapsed_ticks >= max_duration * TicksPerSecond

\* daq_scope.py: `if buffer_counter >= buffer_size`
ScopeBufferFull(counter, size) == counter >= size

\* daq_dpppha.py: `if buffer_counter > buffer_size`
DppBufferFull(counter, size) == counter > size

BufferFull(mode, counter, size) ==
    IF FrameMode(mode) THEN ScopeBufferFull(counter, size)
    ELSE DppBufferFull(counter, size)

\* datetime.now().strftime("%Y%m%dT%H%M%SZ"): the clock cut to whole seconds
TimestampStr(t) == t \div TicksPerSecond

SeqRange(q) == {q[i] : i \in 1..Len(q)}

RECURSIVE SumLen(_, _)
SumLen(g, chs) ==
    IF chs = {} THEN 0
    ELSE LET c == CHOOSE x \in chs : TRUE
         IN Len(g[c]) + SumLen(g, chs \ {c})

\* os.path.exists(current_file)
FileExists(f, name) == name \in DOMAIN f

\* the key of the group "dig" in a file; the groups ch000, ch001, ... have the
\* number of their channel as key
DigGroup == 1000

\* os.path.getsize(current_file), in rows (one event of one channel group);
\* the few numbers of a temperature row are below this unit
FileSize(f, name) ==
    IF FileExists(f, name) THEN SumLen(f[name], DOMAIN f[name] \ {DigGroup})
    ELSE 0

\* lh5.write(..., lh5_file=name, wo_mode="append", group=ch): creates the file
\* and the group when absent, appends otherwise.
AppendRows(f, name, ch, rows) ==
    LET old == IF name \in DOMAIN f THEN f[name] ELSE <<>>
        oldrows == IF ch \in DOMAIN old THEN old[ch] ELSE <<>>
        new == [c \in (DOMAIN old) \cup {ch} |->
                   IF c = ch THEN oldrows \o rows ELSE old[c]]
    IN [n \in (DOMAIN f) \cup {name} |-> IF n = name THEN new ELSE f[n]]

\* `if save_temperature: temperature_buffer.append(temp_values)`; the row is
\* named by the event it was read with
TemperatureAppend(tbuf, save_temperature, tag) ==
    IF save_temperature THEN Append(tbuf, tag) ELSE tbuf

\* The save_temperature the flush tests: the variable of main in both
\* daq_scope.py; in daq_dpppha.py the parameter of flush_buffers_to_lh5,
\* which no call passes and which defaults to False.
FlushSaveTemperature(mode, save_temperature) ==
    IF FrameMode(mode) THEN save_temperature ELSE FALSE

\* `if save_temperature and temperature_buffer:` of the flush
WritesTemperature(mode, save_temperature, tbuf) ==
    FlushSaveTemperature(mode, save_temperature) /\ tbuf # <<>>

\* lh5.write(temp_data, ..., group="dig")
TemperatureWritten(f, name, mode, save_temperature, tbuf) ==
    IF WritesTemperature(mode, save_temperature, tbuf)
    THEN AppendRows(f, name, DigGroup, tbuf) ELSE f

\* temperature_buffer.clear() after the write
TemperatureCleared(mode, save_temperature, tbuf) ==
    IF WritesTemperature(mode, save_temperature, tbuf) THEN <<>> ELSE tbuf

\* daq_scope.py, `for i, ch in enumerate(channel_list)` of the flush: the
\* whole array of position i is written to the group of channel ch (chseq:
\* the first channels of channel_list).
RECURSIVE ScopeWriteChannels(_, _, _, _)
ScopeWriteChannels(f, name, chseq, wbuf) ==
    IF chseq = <<>> THEN f
    ELSE LET i == Len(chseq)
             before == ScopeWriteChannels(f, name, SubSeq(chseq, 1, i - 1), wbuf)
         IN AppendRows(before, name, chseq[i], wbuf[i])

\* flush_buffers_to_lh5, the eventnumber column of a restarted numbering:
\* np.arange(0, ch_size)
DppRowsRestart(b) ==
    [k \in 1..Len(b.waveform) |-> [ev |-> b.waveform[k], eventnumber |-> k - 1]]

\* flush_buffers_to_lh5, the table of one channel: the held events with the
\* column eventnumber = np.arange(count - ch_size, count)
DppRows(b) ==
    [k \in 1..Len(b.waveform) |->
        [ev |-> b.waveform[k],
         eventnumber |-> (b.count - Len(b.waveform)) + (k - 1)]]

\* flush_buffers_to_lh5, `for ch in channel_list`: a channel without events
\* is skipped, the others are written.
RECURSIVE DppWriteChannels(_, _, _, _)
DppWriteChannels(f, name, chseq, bufs) ==
    IF chseq = <<>> THEN f
    ELSE LET ch == Head(chseq)
             g == IF Len(bufs[ch].waveform) = 0 THEN f
                  ELSE AppendRows(f, name, ch, DppRows(bufs[ch]))
         IN DppWriteChannels(g, name, Tail(chseq), bufs)

\* the keys of buffers[ch] that hold one list entry per event
ListKeys ==
    {"waveform", "time_filter", "digital_1", "digital_2", "digital_3",
     "digital_4", "timestamp", "energy", "flag_low", "flag_high"}

\* buffers[ch] as allocated before the loop: ten empty lists and count 0
EmptyBuffer ==
    [key \in ListKeys \cup {"count"} |-> IF key = "count" THEN 0 ELSE <<>>]

\* an event handler that appends the waveform only
AppendEventWaveformOnly(b, tag) ==
    [key \in DOMAIN b |->
        IF key = "count" THEN b[key] + 1
        ELSE IF key = "waveform" THEN Append(b[key], tag)
        ELSE b[key]]

\* the ten buffers[ch][key].append(...) of one event and `count += 1`; every
\* list receives the entry of the event (its tag here)
AppendEvent(b, tag) ==
    [key \in DOMAIN b |->
        IF key = "count" THEN b[key] + 1 ELSE Append(b[key], tag)]

\* `for key in buffers[ch]: if key in ["count"]: continue
\*  else: buffers[ch][key].clear()`
ClearLists(b) ==
    [key \in DOMAIN b |-> IF key = "count" THEN b[key] ELSE <<>>]

\* a flush that clears the lists of every channel, written or not
DppClearWrittenEarly(bufs, written) ==
    [ch \in DOMAIN bufs |-> ClearLists(bufs[ch])]

\* flush_buffers_to_lh5, the lists are cleared for the channels whose write
\* returned; "count" is kept.
DppClearWritten(bufs, written) ==
    [ch \in DOMAIN bufs |->
        IF ch \in written THEN ClearLists(bufs[ch]) ELSE bufs[ch]]

\* the size test after a flush: the name the next flush will use
Rotate(f, name, threshold, t) ==
    IF FileExists(f, name) /\ FileSize(f, name) >= threshold
    THEN TimestampStr(t) ELSE name

\* time.time_ns() at the start of the run, in the unit of the timestamps
StartTimestamp == 100

\* What read_data delivers in frame mode: the waveform array with one row
\* per device channel and one timestamp.  Row r of the frame with number tag
\* is named [ev |-> tag, row |-> r]; the timestamp of the frame is tag.
DeviceFrame(tag, tot_channels) ==
    [waveform |-> [r \in 0..(tot_channels - 1) |-> [ev |-> tag, row |-> r]],
     timestamp |-> tag]

\* np.uint64(start_timestamp + timestamp) in the package, np.uint64(timestamp)
\* in the top-level daq_scope.py
StoredTimestamp(mode, timestamp) ==
    IF mode = "top" THEN timestamp ELSE StartTimestamp + timestamp

\* One slot of the buffers of one position: the row in waveform_buffer and
\* the value in timestamp_buffer.  np.full(..., 0): the slot before any store.
ZeroCell == [ev |-> 0, row |-> None, ts |-> 0]

\* a store that takes the row at the position of the channel in the list
ScopeStoreByPosition(wbuf, chlist, stored, counter, frame, mode) ==
    [i \in DOMAIN wbuf |->
        IF chlist[i] \in stored
        THEN [wbuf[i] EXCEPT ![counter + 1] =
                 [ev |-> frame.waveform[i - 1].ev, row |-> frame.waveform[i - 1].row,
                  ts |-> StoredTimestamp(mode, frame.timestamp)]]
        ELSE wbuf[i]]

\* daq_scope.py, `for i, ch in enumerate(channel_list):
\* waveform_buffer[i, buffer_counter, :] = waveform[ch]` and the timestamp,
\* for the channels of `stored`; positions and slots are numbered from 1.
ScopeStore(wbuf, chlist, stored, counter, frame, mode) ==
    [i \in DOMAIN wbuf |->
        IF chlist[i] \in stored
        THEN [wbuf[i] EXCEPT ![counter + 1] =
                 [ev |-> frame.waveform[chlist[i]].ev,
                  row |-> frame.waveform[chlist[i]].row,
                  ts |-> StoredTimestamp(mode, frame.timestamp)]]
        ELSE wbuf[i]]

(***************************************************************************)
(* Acquisition: inputs                                                     *)
(***************************************************************************)
\* rotation thresholds (max_file_size_mb * 1024 * 1024), in rows
FileSizeLimits == {2, 3}

\* -d, in seconds
Durations == {None, 1}

\* resolved channel list and numch of the device
Setups == { [chs |-> <<0>>, tot |-> 2], [chs |-> <<1>>, tot |-> 2],
            [chs |-> <<0, 1>>, tot |-> 2],
            [chs |-> <<0, 1>>, tot |-> 1], [chs |-> <<1>>, tot |-> 1],
            [chs |-> <<>>, tot |-> 2] }

RunConfigs ==
    [mode : {"scope", "dpp", "top"}, save_enabled : BOOLEAN,
     total_events : {None} \cup (0..MaxTarget), max_duration : Durations,
     buffer_size : 1..MaxBuf, max_file_size : FileSizeLimits,
     tot_channels : {1, 2}, first_id : {0, 1}, trig_source : TrigSources,
     save_temperature : BOOLEAN]

(***************************************************************************)
(* Acquisition: state machine                                              *)
(***************************************************************************)
ResolverDone(chs) ==
    /\ channel_settings = <<>>
    /\ gi = 1
    /\ all_active_channels = SeqRange(chs)
    /\ channel_list = chs
    /\ warned = {}
    /\ rpc = "done"

\* The state after the configuration was read and the channel groups were
\* resolved: the command line is known, nothing else has happened yet.
\* -o is required by the top-level daq_scope.py; the per-channel endpoint
\* numbers nothing and reports the channel of each event.
AcqSetup ==
    /\ WebIdle
    /\ ConfigIdle
    /\ GuiIdle
    /\ cfg \in RunConfigs
    /\ \E su \in Setups :
          /\ ResolverDone(su.chs)
          /\ cfg.tot_channels = su.tot
    /\ cfg.mode = "dpp" => (cfg.tot_channels = 2 /\ cfg.first_id = 0)
    /\ cfg.mode = "top" => (cfg.save_enabled /\ cfg.first_id = 0)
    /\ buffer_size = 0
    /\ apc = "setup"
    /\ exit_reason = ""
    /\ exit_status = None
    /\ buffer_counter = 0
    /\ trigger_id = 0
    /\ event_counter = 0
    /\ blocked = 0
    /\ dev_next_id = 0
    /\ waveform_buffer = <<>>
    /\ buffers = <<>>
    /\ accepted = 0
    /\ now = 0
    /\ current_file = None
    /\ opened = <<>>
    /\ files = <<>>
    /\ flushlog = <<>>
    /\ left_with = None
    /\ dev = DevOff
    /\ last_read = "none"
    /\ prev_read = "none"
    /\ temperature_buffer = <<>>

\* runs without -tt
AcqInit == AcqSetup /\ ~cfg.save_temperature

\* runs with -tt
TempInit == AcqSetup /\ cfg.save_temperature

\* The top-level daq_scope.py compares `buffer_size > total_events` without
\* testing total_events for None: int > None raises TypeError.
ClampRaises(mode, total_events) == mode = "top" /\ total_events = None

\* From the clamp of buffer_size to the line before `while True`: the
\* capacity is fixed, the first file is named, the buffers are allocated, the
\* device is connected, configured, armed and started.
StartRun ==
    /\ apc = "setup"
    /\ ~ClampRaises(cfg.mode, cfg.total_events)
    /\ buffer_size' = ClampBufferSize(cfg.buffer_size, cfg.total_events)
    /\ apc' = "read"
    /\ dev_next_id' = cfg.first_id
    /\ waveform_buffer' =
          IF FrameMode(cfg.mode)
          THEN [i \in 1..Len(channel_list) |-> [k \in 1..buffer_size' |-> ZeroCell]]
          ELSE <<>>
    /\ buffers' =
          IF cfg.mode = "dpp"
          THEN [ch \in SeqRange(channel_list) |-> EmptyBuffer]
          ELSE <<>>
    /\ current_file' = IF cfg.save_enabled THEN TimestampStr(now) ELSE None
    /\ opened' = IF cfg.save_enabled THEN <<TimestampStr(now)>> ELSE <<>>
    /\ dev' = BeginRead(DeviceSetup(dev), cfg.trig_source)
    /\ UNCHANGED <<xvars, rvars, wvars, cfg, temperature_buffer, event_counter, blocked, exit_reason,
                   exit_status, buffer_counter, trigger_id, accepted, now,
                   files, flushlog, left_with, last_read, prev_read>>

\* The top-level daq_scope.py without -n: the TypeError of the clamp leaves
\* main before device.connect; the interpreter exits with status 1.
StartTypeError ==
    /\ apc = "setup"
    /\ ClampRaises(cfg.mode, cfg.total_events)
    /\ apc' = "exited"
    /\ exit_reason' = "typeerror"
    /\ exit_status' = 1
    /\ UNCHANGED <<xvars, rvars, wvars, cfg, temperature_buffer, event_counter, blocked, buffer_size,
                   buffer_counter, trigger_id, dev_next_id, waveform_buffer,
                   buffers, accepted, now, current_file, files, opened,
                   flushlog, left_with, dev, last_read, prev_read>>

InLoop == apc \in {"read", "full", "stop"}

\* `break`, then dig.cmd.disarmacquisition() and the end of the with block.
NormalExit(reason) ==
    /\ apc' = "exited"
    /\ exit_reason' = reason
    /\ exit_status' = 0
    /\ left_with' = buffer_counter
    /\ dev' = Issue(Issue([dev EXCEPT !.connected = FALSE, !.armed = FALSE,
                                        !.disarmed = TRUE], "disarm"), "close")

\* an exception that is swallowed: the script ends like after a `break`
ErrorExitClean(reason, status) ==
    /\ apc' = "exited"
    /\ exit_reason' = reason
    /\ exit_status' = 0
    /\ left_with' = buffer_counter
    /\ dev' = Issue([dev EXCEPT !.connected = FALSE], "close")

\* An exception leaves main through the with block: the connection is closed,
\* the line dig.cmd.disarmacquisition() is not reached.
ErrorExit(reason, status) ==
    /\ apc' = "exited"
    /\ exit_reason' = reason
    /\ exit_status' = status
    /\ left_with' = buffer_counter
    /\ dev' = Issue([dev EXCEPT !.connected = FALSE], "close")

\* endpoint.read_data(timeout, data): 1000 ms in both daq_scope.py, -1 (wait
\* until the device delivers something) in daq_dpppha.py.
ReadDataTimeout(mode) == IF FrameMode(mode) THEN 1000 ELSE 0 - 1

WaitsForever(ms) == ms < 0

\* a timeout of ms milliseconds in ticks of the model clock
TimeoutTicks(ms) == (ms * TicksPerSecond) \div 1000

Min(a, b) == IF a < b THEN a ELSE b

\* The wall clock advances by one tick.  A read_data call with a finite
\* timeout has returned when its timeout has elapsed; the clock and the
\* waiting time are not counted beyond MaxTime.
Tick ==
    /\ InLoop
    /\ (apc = "read" /\ ~WaitsForever(ReadDataTimeout(cfg.mode)))
          => blocked < TimeoutTicks(ReadDataTimeout(cfg.mode))
    /\ now' = Min(now + 1, MaxTime)
    /\ blocked' = IF apc = "read" THEN Min(blocked + 1, MaxTime) ELSE blocked
    /\ UNCHANGED <<xvars, rvars, wvars, cfg, temperature_buffer, event_counter, buffer_size, apc, exit_reason, exit_status,
                   buffer_counter, trigger_id, dev_next_id, waveform_buffer,
                   buffers, accepted, current_file, files, opened, flushlog,
                   left_with, dev, last_read, prev_read>>

\* a TIMEOUT handler that counts the timed-out read as an event
ReadTimeoutCounted ==
    /\ apc = "read"
    /\ ~WaitsForever(ReadDataTimeout(cfg.mode))
    /\ blocked >= TimeoutTicks(ReadDataTimeout(cfg.mode))
    /\ last_read' = "timeout"
    /\ prev_read' = last_read
    /\ blocked' = 0
    /\ event_counter' = IF cfg.mode = "top" THEN event_counter + 1 ELSE event_counter
    /\ trigger_id' = IF cfg.mode = "top" THEN trigger_id ELSE trigger_id + 1
    /\ dev' = BeginRead(dev, cfg.trig_source)
    /\ UNCHANGED <<xvars, rvars, wvars, cfg, temperature_buffer, buffer_size, apc, exit_reason, exit_status,
                   buffer_counter, dev_next_id, waveform_buffer,
                   buffers, accepted, now, current_file, files, opened,
                   flushlog, left_with>>

\* read_data raises error.Error with code TIMEOUT after waiting for the
\* timeout it was given: `continue`.
ReadTimeout ==
    /\ apc = "read"
    /\ ~WaitsForever(ReadDataTimeout(cfg.mode))
    /\ blocked >= TimeoutTicks(ReadDataTimeout(cfg.mode))
    /\ last_read' = "timeout"
    /\ prev_read' = last_read
    /\ blocked' = 0
    /\ dev' = BeginRead(dev, cfg.trig_source)
    /\ UNCHANGED <<xvars, rvars, wvars, cfg, temperature_buffer, event_counter, buffer_size, apc, exit_reason, exit_status,
                   buffer_counter, trigger_id, dev_next_id, waveform_buffer,
                   buffers, accepted, now, current_file, files, opened,
                   flushlog, left_with>>

\* read_data raises error.Error with code STOP: `break`.
ReadStop ==
    /\ apc = "read"
    /\ last_read' = "stop"
    /\ prev_read' = last_read
    /\ NormalExit("stop")
    /\ blocked' = 0
    /\ UNCHANGED <<xvars, rvars, wvars, cfg, temperature_buffer, event_counter, buffer_size, buffer_counter, trigger_id,
                   dev_next_id, waveform_buffer, buffers, accepted, now,
                   current_file, files, opened, flushlog>>

\* read_data raises any other error.Error: `raise ex`.
ReadFatal ==
    /\ apc = "read"
    /\ last_read' = "fatal"
    /\ prev_read' = last_read
    /\ ErrorExit("fatal", 1)
    /\ blocked' = 0
    /\ UNCHANGED <<xvars, rvars, wvars, cfg, temperature_buffer, event_counter, buffer_size, buffer_counter, trigger_id,
                   dev_next_id, waveform_buffer, buffers, accepted, now,
                   current_file, files, opened, flushlog>>

\* KeyboardInterrupt (SIGINT) while the loop runs.  daq_dpp catches it and
\* calls sys.exit(0); daq_scope.py has no handler and ends with status 130.
Interrupt ==
    /\ InLoop
    /\ ErrorExit("interrupt", IF cfg.mode = "dpp" THEN 0 ELSE 130)
    /\ UNCHANGED <<xvars, rvars, wvars, cfg, temperature_buffer, event_counter, blocked, buffer_size, buffer_counter, trigger_id,
                   dev_next_id, waveform_buffer, buffers, accepted, now,
                   current_file, files, opened, flushlog, last_read, prev_read>>

\* daq_scope.py: a frame whose array has fewer rows than active channels
\* (shape [numch, recordlengths]) is dropped with a warning: `continue`.
\* trigger_id was already taken from the frame.
ScopeDiscardFrame ==
    /\ apc = "read" /\ FrameMode(cfg.mode)
    /\ dev_next_id <= MaxEvents
    /\ cfg.tot_channels < Len(channel_list)
    /\ last_read' = "discarded"
    /\ prev_read' = last_read
    /\ trigger_id' = IF cfg.mode = "scope" THEN dev_next_id ELSE trigger_id
    /\ dev_next_id' = dev_next_id + 1
    /\ blocked' = 0
    /\ dev' = BeginRead(dev, cfg.trig_source)
    /\ UNCHANGED <<xvars, rvars, wvars, cfg, temperature_buffer, event_counter, buffer_size, apc, exit_reason, exit_status,
                   buffer_counter, waveform_buffer, buffers, accepted, now,
                   current_file, files, opened, flushlog, left_with>>

\* Channels stored before `waveform[ch]` or the slot index raises IndexError.
StoredBeforeError ==
    IF buffer_counter >= buffer_size THEN {}
    ELSE {channel_list[i] : i \in {j \in 1..Len(channel_list) :
              \A h \in 1..j : channel_list[h] < cfg.tot_channels}}

FrameIndexError ==
    \/ buffer_counter >= buffer_size
    \/ \E i \in 1..Len(channel_list) : channel_list[i] >= cfg.tot_channels

\* daq_scope.py: the store of an accepted frame raises IndexError (no slot
\* buffer_counter in the array, or no row ch in the frame).
ScopeFrameIndexError ==
    /\ apc = "read" /\ FrameMode(cfg.mode)
    /\ accepted < MaxEvents /\ dev_next_id <= MaxEvents
    /\ ~(cfg.tot_channels < Len(channel_list))
    /\ FrameIndexError
    /\ last_read' = "event"
    /\ prev_read' = last_read
    /\ trigger_id' = IF cfg.mode = "scope" THEN dev_next_id ELSE trigger_id
    /\ dev_next_id' = dev_next_id + 1
    /\ waveform_buffer' = ScopeStore(waveform_buffer, channel_list,
                                     StoredBeforeError, buffer_counter,
                                     DeviceFrame(accepted + 1, cfg.tot_channels),
                                     cfg.mode)
    /\ ErrorExit("index", 1)
    /\ blocked' = 0
    /\ UNCHANGED <<xvars, rvars, wvars, cfg, temperature_buffer, event_counter, buffer_size, buffer_counter, buffers, accepted,
                   now, current_file, files, opened, flushlog>>

\* daq_scope.py: a frame is read and stored in slot buffer_counter of every
\* active channel; buffer_counter += 1.
ScopeReadFrame ==
    /\ apc = "read" /\ FrameMode(cfg.mode)
    /\ accepted < MaxEvents /\ dev_next_id <= MaxEvents
    /\ ~(cfg.tot_channels < Len(channel_list))
    /\ ~FrameIndexError
    /\ last_read' = "event"
    /\ prev_read' = last_read
    /\ trigger_id' = IF cfg.mode = "scope" THEN dev_next_id ELSE trigger_id
    /\ dev_next_id' = dev_next_id + 1
    /\ waveform_buffer' = ScopeStore(waveform_buffer, channel_list,
                                     SeqRange(channel_list), buffer_counter,
                                     DeviceFrame(accepted + 1, cfg.tot_channels),
                                     cfg.mode)
    /\ buffer_counter' = buffer_counter + 1
    /\ accepted' = accepted + 1
    /\ apc' = "full"
    /\ blocked' = 0
    /\ event_counter' = IF cfg.mode = "top" THEN event_counter + 1 ELSE event_counter
    /\ temperature_buffer' =
          TemperatureAppend(temperature_buffer, cfg.save_temperature, accepted + 1)
    /\ UNCHANGED <<xvars, rvars, wvars, cfg, buffer_size, exit_reason, exit_status, buffers,
                   now, current_file, files, opened, flushlog, left_with, dev>>

\* daq_dpppha.py: an event of channel ch is read and appended to the lists of
\* buffers[ch]; count and buffer_counter += 1.
DppReadEvent ==
    /\ apc = "read" /\ cfg.mode = "dpp"
    /\ accepted < MaxEvents
    /\ \E ch \in SeqRange(channel_list) :
          buffers' = [buffers EXCEPT
                        ![ch] = AppendEvent(@, accepted + 1)]
    /\ last_read' = "event"
    /\ prev_read' = last_read
    /\ buffer_counter' = buffer_counter + 1
    /\ accepted' = accepted + 1
    /\ apc' = "full"
    /\ blocked' = 0
    /\ temperature_buffer' =
          TemperatureAppend(temperature_buffer, cfg.save_temperature, accepted + 1)
    /\ UNCHANGED <<xvars, rvars, wvars, cfg, event_counter, buffer_size, exit_reason, exit_status, trigger_id,
                   dev_next_id, waveform_buffer, now, current_file, files,
                   opened, flushlog, left_with, dev>>

\* ---- flush
\* Channels whose write returned when the write of the k-th channel raises
\* (k = 0: no write raises).
Written(k) == IF k = 0 THEN channel_list ELSE SubSeq(channel_list, 1, k - 1)

\* The k-th channel is written by this flush (dpp skips empty channels).
WritesChannel(k) ==
    /\ k \in 1..Len(channel_list)
    /\ cfg.mode = "dpp" => Len(buffers[channel_list[k]].waveform) > 0

FlushedFiles(written) ==
    IF FrameMode(cfg.mode)
    THEN ScopeWriteChannels(files, current_file, written, waveform_buffer)
    ELSE DppWriteChannels(files, current_file, written, buffers)

\* Event tags handed to the storage by a flush of the channels `written`.
FlushedTags(written) ==
    IF FrameMode(cfg.mode)
    THEN {waveform_buffer[i][k].ev : i \in 1..Len(written), k \in 1..buffer_size}
    ELSE UNION {SeqRange(buffers[ch].waveform) : ch \in SeqRange(written)}

\* What one flush did: the file it wrote to, the size of that file before
\* and after, the number of events handed to the storage, and whether every
\* write returned (k = 0).
FlushRecord(kind, k) ==
    [kind |-> kind, file |-> current_file,
     presize |-> FileSize(files, current_file),
     postsize |-> FileSize(FlushedFiles(Written(k)), current_file),
     events |-> Cardinality(FlushedTags(Written(k))), ok |-> (k = 0)]

ShouldRotate(f, name, threshold) ==
    FileExists(f, name) /\ FileSize(f, name) >= threshold

\* `if buffer_counter >= buffer_size` (scope) / `> buffer_size` (dpp) is false.
BufferNotFull ==
    /\ apc = "full"
    /\ ~BufferFull(cfg.mode, buffer_counter, buffer_size)
    /\ trigger_id' = IF cfg.mode = "dpp" THEN trigger_id + 1 ELSE trigger_id
    /\ apc' = "stop"
    /\ UNCHANGED <<xvars, rvars, wvars, cfg, temperature_buffer, event_counter, blocked, buffer_size, exit_reason, exit_status,
                   buffer_counter, dev_next_id, waveform_buffer, buffers,
                   accepted, now, current_file, files, opened, flushlog,
                   left_with, dev, last_read, prev_read>>

\* Buffer full, no output file given: only `buffer_counter = 0`.
BufferFullNoSave ==
    /\ apc = "full"
    /\ BufferFull(cfg.mode, buffer_counter, buffer_size)
    /\ ~cfg.save_enabled
    /\ buffer_counter' = 0
    /\ trigger_id' = IF cfg.mode = "dpp" THEN trigger_id + 1 ELSE trigger_id
    /\ apc' = "stop"
    /\ UNCHANGED <<xvars, rvars, wvars, cfg, temperature_buffer, event_counter, blocked, buffer_size, exit_reason, exit_status,
                   dev_next_id, waveform_buffer, buffers, accepted, now,
                   current_file, files, opened, flushlog, left_with, dev,
                   last_read, prev_read>>

\* Buffer full, saving: every channel is written, (dpp) the lists are cleared,
\* the size of the file is tested, buffer_counter = 0.
BufferFullFlush ==
    /\ apc = "full"
    /\ BufferFull(cfg.mode, buffer_counter, buffer_size)
    /\ cfg.save_enabled
    /\ files' = TemperatureWritten(FlushedFiles(channel_list), current_file,
                                   cfg.mode, cfg.save_temperature,
                                   temperature_buffer)
    /\ temperature_buffer' = TemperatureCleared(cfg.mode, cfg.save_temperature,
                                                temperature_buffer)
    /\ flushlog' = Append(flushlog, FlushRecord("full", 0))
    /\ buffers' = IF cfg.mode = "dpp"
                  THEN DppClearWritten(buffers, SeqRange(channel_list))
                  ELSE buffers
    /\ current_file' = Rotate(files', current_file, cfg.max_file_size, now)
    /\ opened' = IF ShouldRotate(files', current_file, cfg.max_file_size)
                 THEN Append(opened, current_file') ELSE opened
    /\ buffer_counter' = 0
    /\ trigger_id' = IF cfg.mode = "dpp" THEN trigger_id + 1 ELSE trigger_id
    /\ apc' = "stop"
    /\ UNCHANGED <<xvars, rvars, wvars, cfg, event_counter, blocked, buffer_size, exit_reason, exit_status,
                   dev_next_id, waveform_buffer, accepted, now, left_with, dev,
                   last_read, prev_read>>

\* Buffer full, saving, lh5.write raises for the k-th channel: the exception
\* leaves main; the channels before k were written (dpp: and cleared).
BufferFullFlushFails ==
    /\ apc = "full"
    /\ BufferFull(cfg.mode, buffer_counter, buffer_size)
    /\ cfg.save_enabled
    /\ \E k \in 1..Len(channel_list) :
          /\ WritesChannel(k)
          /\ files' = FlushedFiles(Written(k))
          /\ flushlog' = Append(flushlog, FlushRecord("full", k))
          /\ buffers' = IF cfg.mode = "dpp"
                        THEN DppClearWritten(buffers, SeqRange(Written(k)))
                        ELSE buffers
    /\ ErrorExit("storage", 1)
    /\ UNCHANGED <<xvars, rvars, wvars, cfg, temperature_buffer, event_counter, blocked, buffer_size, buffer_counter, trigger_id,
                   dev_next_id, waveform_buffer, accepted, now, current_file,
                   opened, last_read, prev_read>>

\* ---- stopping tests
\* The counter the target test reads: event_counter in the top-level
\* daq_scope.py, trigger_id in the scripts of the package.
TargetCounter == IF cfg.mode = "top" THEN event_counter ELSE trigger_id

StopReason ==
    IF TargetReached(cfg.total_events, TargetCounter) THEN "target"
    ELSE IF DurationReached(cfg.max_duration, now) THEN "duration"
    ELSE ""

\* daq_dpppha.py calls flush_buffers_to_lh5 before `break`; daq_scope.py
\* does not.
HasFinalFlush == cfg.mode = "dpp" /\ cfg.save_enabled

\* Neither stopping test holds: next iteration.
LoopContinues ==
    /\ apc = "stop"
    /\ StopReason = ""
    /\ apc' = "read"
    /\ dev' = BeginRead(dev, cfg.trig_source)
    /\ UNCHANGED <<xvars, rvars, wvars, cfg, temperature_buffer, event_counter, blocked, buffer_size, exit_reason, exit_status,
                   buffer_counter, trigger_id, dev_next_id, waveform_buffer,
                   buffers, accepted, now, current_file, files, opened,
                   flushlog, left_with, last_read, prev_read>>

\* A stopping test holds and no flush is made: `break`.
LoopStops ==
    /\ apc = "stop"
    /\ StopReason # ""
    /\ ~HasFinalFlush
    /\ NormalExit(StopReason)
    /\ UNCHANGED <<xvars, rvars, wvars, cfg, temperature_buffer, event_counter, blocked, buffer_size, buffer_counter, trigger_id,
                   dev_next_id, waveform_buffer, buffers, accepted, now,
                   current_file, files, opened, flushlog, last_read, prev_read>>

\* daq_dpppha.py: a stopping test holds, the buffers are flushed, `break`.
LoopStopsFinalFlush ==
    /\ apc = "stop"
    /\ StopReason # ""
    /\ HasFinalFlush
    /\ files' = TemperatureWritten(FlushedFiles(channel_list), current_file,
                                   cfg.mode, cfg.save_temperature,
                                   temperature_buffer)
    /\ temperature_buffer' = TemperatureCleared(cfg.mode, cfg.save_temperature,
                                                temperature_buffer)
    /\ flushlog' = Append(flushlog, FlushRecord("final", 0))
    /\ buffers' = DppClearWritten(buffers, SeqRange(channel_list))
    /\ NormalExit(StopReason)
    /\ UNCHANGED <<xvars, rvars, wvars, cfg, event_counter, blocked, buffer_size, buffer_counter, trigger_id,
                   dev_next_id, waveform_buffer, accepted, now, current_file,
                   opened, last_read, prev_read>>

\* daq_dpppha.py: lh5.write raises for the k-th channel in the final flush.
FinalFlushFails ==
    /\ apc = "stop"
    /\ StopReason # ""
    /\ HasFinalFlush
    /\ \E k \in 1..Len(channel_list) :
          /\ WritesChannel(k)
          /\ files' = FlushedFiles(Written(k))
          /\ flushlog' = Append(flushlog, FlushRecord("final", k))
          /\ buffers' = DppClearWritten(buffers, SeqRange(Written(k)))
    /\ ErrorExit("storage", 1)
    /\ UNCHANGED <<xvars, rvars, wvars, cfg, temperature_buffer, event_counter, blocked, buffer_size, buffer_counter, trigger_id,
                   dev_next_id, waveform_buffer, accepted, now, current_file,
                   opened, last_read, prev_read>>

AcqNext ==
    \/ StartRun
    \/ StartTypeError
    \/ Tick
    \/ ReadTimeout
    \/ ReadStop
    \/ ReadFatal
    \/ Interrupt
    \/ ScopeDiscardFrame
    \/ ScopeFrameIndexError
    \/ ScopeReadFrame
    \/ DppReadEvent
    \/ BufferNotFull
    \/ BufferFullNoSave
    \/ BufferFullFlush
    \/ BufferFullFlushFails
    \/ LoopContinues
    \/ LoopStops
    \/ LoopStopsFinalFlush
    \/ FinalFlushFails

SpecAcq == AcqInit /\ [][AcqNext]_vars

\* What the interpreter and the clock guarantee: the statements of the script
\* between two read_data calls are executed, time passes, and a read_data
\* call with a finite timeout returns.  Nothing obliges the device to deliver
\* an event, a Stop or an error, the storage to fail, or the user to
\* interrupt.
AcqFairness ==
    /\ WF_vars(StartRun) /\ WF_vars(StartTypeError)
    /\ WF_vars(Tick) /\ WF_vars(ReadTimeout)
    /\ WF_vars(BufferNotFull) /\ WF_vars(BufferFullNoSave)
    /\ WF_vars(BufferFullFlush)
    /\ WF_vars(LoopContinues) /\ WF_vars(LoopStops)
    /\ WF_vars(LoopStopsFinalFlush)

SpecAcqFair == AcqInit /\ [][AcqNext]_vars /\ AcqFairness

\* the same runs with temperature logging
SpecTemp == TempInit /\ [][AcqNext]_vars


(***************************************************************************)
(* Web server: start_acquisition and stop_acquisition (app.py)             *)
(***************************************************************************)
\* `with process_lock:` can be entered
LockFreeAlways(holder) == TRUE

LockFree(holder) == holder = 0

\* daq_process and daq_process.poll() is None
Running(dp, ps) == dp # None /\ ps[dp].state = "alive"

AliveProcs == {p \in 1..Len(procs) : procs[p].state = "alive"}

Respond(t, code) ==
    [req EXCEPT ![t].pc = "done", ![t].resp = code]

\* out_file of a request, as last_output_file_basename keeps it
OutNames == {"a", "b"}

\* a message of output_queue: the subprocess it is about and what it is
\* ("start": the command line, "stop": "Stopping acquisition...", "line": a
\* line of output, "exit": __PROCESS_EXITED__:<code>, "sentinel": None)
Msg(p, kind) == [run |-> p, kind |-> kind]

\* output_q.put(message); the queue of the model holds MaxQueue messages
CanPut(q) == Len(q) < MaxQueue

\* the reader thread as threading.Thread(...).start() leaves it
NewReader == "reading"

ResolverIdle ==
    /\ channel_settings = <<>>
    /\ gi = 1
    /\ all_active_channels = {}
    /\ channel_list = <<>>
    /\ warned = {}
    /\ rpc = "loop"

WebInit == ResolverIdle /\ AcqIdle /\ WebIdle /\ ConfigIdle /\ GuiIdle

Threads == 1..MaxRequests

IdleRequest ==
    [kind |-> "none", pc |-> "idle", resp |-> None, saw_alive |-> FALSE,
     spawned |-> None]

\* A POST /start_acquisition or /stop_acquisition reaches a server thread.
RequestArrives ==
    /\ \E t \in Threads, k \in {"start", "stop"} :
          /\ req[t].pc = "idle"
          /\ req' = [req EXCEPT ![t] = [IdleRequest EXCEPT !.kind = k,
                                                           !.pc = "waitlock"]]
    /\ UNCHANGED <<xvars, rvars, avars, lvars, daq_process, procs, process_lock>>

\* `with process_lock:` is entered.
AcquireLock ==
    /\ \E t \in Threads :
          /\ req[t].pc = "waitlock"
          /\ LockFree(process_lock)
          /\ process_lock' = t
          /\ req' = [req EXCEPT ![t].pc = "check"]
    /\ UNCHANGED <<xvars, rvars, avars, lvars, daq_process, procs>>

\* start_acquisition: `if daq_process and daq_process.poll() is None`
\* is true -> 409.
StartRejected ==
    /\ \E t \in Threads :
          /\ req[t].pc = "check" /\ req[t].kind = "start"
          /\ Running(daq_process, procs)
          /\ req' = [Respond(t, 409) EXCEPT ![t].saw_alive = TRUE]
    /\ process_lock' = 0
    /\ UNCHANGED <<xvars, rvars, avars, lvars, daq_process, procs>>

\* start_acquisition: the test is false, the request is validated next.
StartCheckPasses ==
    /\ \E t \in Threads :
          /\ req[t].pc = "check" /\ req[t].kind = "start"
          /\ ~Running(daq_process, procs)
          /\ req' = [req EXCEPT ![t].pc = "validate"]
    /\ UNCHANGED <<xvars, rvars, avars, lvars, daq_process, procs, process_lock>>

\* start_acquisition: address, config file or output name missing -> 400.
StartInvalid ==
    /\ \E t \in Threads :
          /\ req[t].pc = "validate"
          /\ req' = Respond(t, 400)
    /\ process_lock' = 0
    /\ UNCHANGED <<xvars, rvars, avars, lvars, daq_process, procs>>

\* start_acquisition: the three fields are given, last_output_file_basename
\* is assigned, then int(n_events) or int(duration) raises ValueError -> 400.
StartInvalidNumber ==
    /\ \E t \in Threads :
          /\ req[t].pc = "validate"
          /\ req' = Respond(t, 400)
    /\ \E name \in OutNames : last_output_file_basename' = name
    /\ process_lock' = 0
    /\ UNCHANGED <<xvars, rvars, avars, daq_process, procs, output_queue,
                   readers, pipe>>

\* start_acquisition: last_output_file_basename is assigned, the queue is
\* emptied, subprocess.Popen(...) returns, the reader thread is started, the
\* command line is put on the queue -> 200.
StartSpawn ==
    /\ \E t \in Threads :
          /\ req[t].pc = "validate"
          /\ req' = [Respond(t, 200) EXCEPT ![t].spawned = Len(procs) + 1]
    /\ Len(procs) < MaxProcs
    /\ procs' = Append(procs, [state |-> "alive", sigint |-> FALSE,
                               killed |-> FALSE])
    /\ daq_process' = Len(procs) + 1
    /\ \E name \in OutNames : last_output_file_basename' = name
    /\ readers' = Append(readers, NewReader)
    /\ output_queue' = <<Msg(Len(procs) + 1, "start")>>
    /\ process_lock' = 0
    /\ UNCHANGED <<xvars, rvars, avars, pipe>>

\* start_acquisition: last_output_file_basename is assigned, the queue is
\* emptied, Popen raises -> 500, daq_process keeps its value.
StartSpawnFails ==
    /\ \E t \in Threads :
          /\ req[t].pc = "validate"
          /\ req' = Respond(t, 500)
    /\ \E name \in OutNames : last_output_file_basename' = name
    /\ output_queue' = <<>>
    /\ process_lock' = 0
    /\ UNCHANGED <<xvars, rvars, avars, daq_process, procs, readers, pipe>>

\* stop_acquisition that kills at once: daq_process.kill() in the place of
\* send_signal(signal.SIGINT)
StopSignalsKillFirst ==
    /\ \E t \in Threads :
          /\ req[t].pc = "check" /\ req[t].kind = "stop"
          /\ daq_process # None /\ procs[daq_process].state = "alive"
          /\ req' = [req EXCEPT ![t].pc = "wait", ![t].saw_alive = TRUE]
    /\ Len(output_queue) < MaxQueue
    /\ output_queue' = Append(output_queue, [run |-> daq_process, kind |-> "stop"])
    /\ procs' = [procs EXCEPT ![daq_process].killed = TRUE]
    /\ UNCHANGED <<xvars, rvars, avars, daq_process, process_lock, readers,
                   last_output_file_basename, pipe>>

\* stop_acquisition: a subprocess runs: "Stopping acquisition..." is put on
\* the queue, SIGINT is sent and daq_process.wait(timeout=5) begins.
StopSignals ==
    /\ \E t \in Threads :
          /\ req[t].pc = "check" /\ req[t].kind = "stop"
          /\ Running(daq_process, procs)
          /\ req' = [req EXCEPT ![t].pc = "wait", ![t].saw_alive = TRUE]
    /\ CanPut(output_queue)
    /\ output_queue' = Append(output_queue, Msg(daq_process, "stop"))
    /\ procs' = [procs EXCEPT ![daq_process].sigint = TRUE]
    /\ UNCHANGED <<xvars, rvars, avars, daq_process, process_lock, readers,
                   last_output_file_basename, pipe>>

\* stop_acquisition: nothing runs -> 'info' response.
StopNothingRunning ==
    /\ \E t \in Threads :
          /\ req[t].pc = "check" /\ req[t].kind = "stop"
          /\ ~Running(daq_process, procs)
          /\ req' = Respond(t, 200)
    /\ process_lock' = 0
    /\ UNCHANGED <<xvars, rvars, avars, lvars, daq_process, procs>>

\* stop_acquisition: wait(timeout=5) returns because the process ended.
StopWaitReturns ==
    /\ \E t \in Threads :
          /\ req[t].pc = "wait"
          /\ procs[daq_process].state = "exited"
          /\ req' = Respond(t, 200)
    /\ process_lock' = 0
    /\ UNCHANGED <<xvars, rvars, avars, lvars, daq_process, procs>>

\* stop_acquisition: TimeoutExpired -> daq_process.kill(); the handler
\* returns without waiting for the process to end.
StopWaitTimeout ==
    /\ \E t \in Threads :
          /\ req[t].pc = "wait"
          /\ procs[daq_process].state = "alive"
          /\ req' = Respond(t, 200)
    /\ procs' = [procs EXCEPT ![daq_process].killed = TRUE]
    /\ process_lock' = 0
    /\ UNCHANGED <<xvars, rvars, avars, lvars, daq_process>>

\* The response was sent; the thread serves the next request.
RequestDone ==
    /\ \E t \in Threads :
          /\ req[t].pc = "done"
          /\ req' = [req EXCEPT ![t] = IdleRequest]
    /\ UNCHANGED <<xvars, rvars, avars, lvars, daq_process, procs, process_lock>>

\* A subprocess ends: its run is over, or SIGINT / SIGKILL took effect.
ProcExits ==
    /\ \E p \in 1..Len(procs) :
          /\ procs[p].state = "alive"
          /\ procs' = [procs EXCEPT ![p].state = "exited"]
    /\ UNCHANGED <<xvars, rvars, avars, lvars, daq_process, process_lock, req>>

\* read_subprocess_output, the two `for line in ...` loops: a line of the
\* subprocess is put on the queue.
ReaderLine ==
    /\ \E p \in 1..Len(readers) :
          /\ readers[p] = "reading"
          /\ CanPut(output_queue)
          /\ output_queue' = Append(output_queue, Msg(p, "line"))
    /\ UNCHANGED <<xvars, rvars, avars, daq_process, procs, process_lock, req,
                   readers, last_output_file_basename, pipe>>

\* read_subprocess_output: the subprocess has ended, both loops reach the
\* end of their pipe and process.wait() returns.
ReaderEof ==
    /\ \E p \in 1..Len(readers) :
          /\ readers[p] = "reading"
          /\ procs[p].state = "exited"
          /\ readers' = [readers EXCEPT ![p] = "exit"]
    /\ UNCHANGED <<xvars, rvars, avars, daq_process, procs, process_lock, req,
                   output_queue, last_output_file_basename, pipe>>

\* read_subprocess_output: output_q.put(exit_message)
ReaderExitMessage ==
    /\ \E p \in 1..Len(readers) :
          /\ readers[p] = "exit"
          /\ CanPut(output_queue)
          /\ readers' = [readers EXCEPT ![p] = "sentinel"]
          /\ output_queue' = Append(output_queue, Msg(p, "exit"))
    /\ UNCHANGED <<xvars, rvars, avars, daq_process, procs, process_lock, req,
                   last_output_file_basename, pipe>>

\* read_subprocess_output: output_q.put(None), the thread ends
ReaderSentinel ==
    /\ \E p \in 1..Len(readers) :
          /\ readers[p] = "sentinel"
          /\ CanPut(output_queue)
          /\ readers' = [readers EXCEPT ![p] = "done"]
          /\ output_queue' = Append(output_queue, Msg(p, "sentinel"))
    /\ UNCHANGED <<xvars, rvars, avars, daq_process, procs, process_lock, req,
                   last_output_file_basename, pipe>>

\* stream_log, generate(): output_queue.get(timeout=1) returns a message; it
\* is sent to the browser, or the stream is closed when it is None.
StreamGet ==
    /\ output_queue # <<>>
    /\ output_queue' = Tail(output_queue)
    /\ UNCHANGED <<xvars, rvars, avars, daq_process, procs, process_lock, req,
                   readers, last_output_file_basename, pipe>>

WebNext ==
    \/ RequestArrives
    \/ AcquireLock
    \/ StartRejected
    \/ StartCheckPasses
    \/ StartInvalid
    \/ StartInvalidNumber
    \/ StartSpawn
    \/ StartSpawnFails
    \/ StopSignals
    \/ StopNothingRunning
    \/ StopWaitReturns
    \/ StopWaitTimeout
    \/ RequestDone
    \/ ProcExits
    \/ ReaderLine
    \/ ReaderEof
    \/ ReaderExitMessage
    \/ ReaderSentinel
    \/ StreamGet

SpecWeb == WebInit /\ [][WebNext]_vars

\* daq_process.kill(): SIGKILL is not caught, blocked or ignored; the
\* subprocess it was sent to ends.
KilledProcExits ==
    /\ \E p \in 1..Len(procs) :
          /\ procs[p].state = "alive" /\ procs[p].killed
          /\ procs' = [procs EXCEPT ![p].state = "exited"]
    /\ UNCHANGED <<xvars, rvars, avars, lvars, daq_process, process_lock, req>>

\* What the operating system guarantees to the server: a killed subprocess
\* ends.  Nothing obliges a request to arrive, a thread to be served or a
\* subprocess to end on SIGINT.
WebFairInit ==
    /\ ResolverIdle /\ AcqIdle /\ ConfigIdle /\ GuiIdle
    /\ WebIdleWith(FairWorkers) /\ pipe = PipeIdle

SpecWebFair == WebFairInit /\ [][WebNext]_vars /\ WF_vars(KilledProcExits)

(***************************************************************************)
(* One subprocess, its stdout and stderr pipes and its reader thread        *)
(* (read_subprocess_output of both app.py, DAQController.read_output)       *)
(***************************************************************************)
\* the variables of the web server other than pipe
wrest == <<daq_process, procs, process_lock, req, output_queue, readers,
           last_output_file_basename>>

RECURSIVE SeqsUpTo(_, _)
SeqsUpTo(S, n) ==
    IF n = 0 THEN {<<>>}
    ELSE LET shorter == SeqsUpTo(S, n - 1)
         IN shorter \cup {Append(q, x) : q \in shorter, x \in S}

\* What a subprocess does: the lines it writes, each to "out" (stdout) or to
\* "err" (stderr), before it ends.  Every such subprocess ends when its
\* writes are taken.
Programs == SeqsUpTo({"out", "err"}, MaxWrites)

\* subprocess.Popen(..., stdout=PIPE, stderr=PIPE) has returned and the
\* reader thread has been started: both pipes empty, the reader at its first
\* loop
PipeStart(program) ==
    [sub |-> "running", todo |-> program, out |-> 0, err |-> 0,
     rd |-> "stdout", log |-> <<>>]

PipeInit ==
    /\ ResolverIdle /\ AcqIdle /\ ConfigIdle /\ GuiIdle
    /\ WebIdleWith(0)
    /\ \E program \in Programs : pipe = PipeStart(program)

\* the subprocess writes its next line; write() returns when the pipe has
\* room for it
SubWrites ==
    /\ pipe.sub = "running" /\ pipe.todo # <<>>
    /\ pipe[Head(pipe.todo)] < PipeCap
    /\ pipe' = [pipe EXCEPT ![Head(pipe.todo)] = @ + 1, !.todo = Tail(@)]
    /\ UNCHANGED <<xvars, rvars, avars, wrest>>

\* the subprocess has written everything and ends: the write ends of both
\* pipes are closed
SubExits ==
    /\ pipe.sub = "running" /\ pipe.todo = <<>>
    /\ pipe' = [pipe EXCEPT !.sub = "exited"]
    /\ UNCHANGED <<xvars, rvars, avars, wrest>>

\* `for line in process.stdout:` one line is read and passed on
ReadStdoutLine ==
    /\ pipe.rd = "stdout" /\ pipe.out > 0
    /\ pipe' = [pipe EXCEPT !.out = @ - 1, !.log = Append(@, "line")]
    /\ UNCHANGED <<xvars, rvars, avars, wrest>>

\* `for line in process.stdout:` ends: the pipe is empty and its write end
\* is closed
ReadStdoutEof ==
    /\ pipe.rd = "stdout" /\ pipe.out = 0 /\ pipe.sub = "exited"
    /\ pipe' = [pipe EXCEPT !.rd = "stderr"]
    /\ UNCHANGED <<xvars, rvars, avars, wrest>>

\* `for line in process.stderr:` one line is read and passed on
ReadStderrLine ==
    /\ pipe.rd = "stderr" /\ pipe.err > 0
    /\ pipe' = [pipe EXCEPT !.err = @ - 1, !.log = Append(@, "error")]
    /\ UNCHANGED <<xvars, rvars, avars, wrest>>

\* `for line in process.stderr:` ends; process.wait() returns
ReadStderrEof ==
    /\ pipe.rd = "stderr" /\ pipe.err = 0 /\ pipe.sub = "exited"
    /\ pipe' = [pipe EXCEPT !.rd = "exit"]
    /\ UNCHANGED <<xvars, rvars, avars, wrest>>

\* output_q.put(exit_message)
PipeExitMessage ==
    /\ pipe.rd = "exit"
    /\ pipe' = [pipe EXCEPT !.rd = "sentinel", !.log = Append(@, "exit")]
    /\ UNCHANGED <<xvars, rvars, avars, wrest>>

\* output_q.put(None); in the GUI: master.after(0, self.on_acquisition_end)
PipeSentinel ==
    /\ pipe.rd = "sentinel"
    /\ pipe' = [pipe EXCEPT !.rd = "done", !.log = Append(@, "sentinel")]
    /\ UNCHANGED <<xvars, rvars, avars, wrest>>

PipeNext ==
    \/ SubWrites
    \/ SubExits
    \/ ReadStdoutLine
    \/ ReadStdoutEof
    \/ ReadStderrLine
    \/ ReadStderrEof
    \/ PipeExitMessage
    \/ PipeSentinel

SpecPipe == PipeInit /\ [][PipeNext]_vars

\* The operating system runs the subprocess whenever its write can proceed,
\* the interpreter runs the reader thread whenever its read can proceed.
PipeFairness ==
    /\ WF_vars(SubWrites) /\ WF_vars(SubExits)
    /\ WF_vars(ReadStdoutLine) /\ WF_vars(ReadStdoutEof)
    /\ WF_vars(ReadStderrLine) /\ WF_vars(ReadStderrEof)
    /\ WF_vars(PipeExitMessage) /\ WF_vars(PipeSentinel)

SpecPipeFair == PipeInit /\ [][PipeNext]_vars /\ PipeFairness

(***************************************************************************)
(* Start of a script: configuration file, channel groups, device parameters *)
(* (main of the three acquisition scripts up to swstartacquisition)         *)
(***************************************************************************)
\* channels of the digitizer (dig.ch): 0 .. NumCh - 1
NumCh == 2

DevChannels == 0..(NumCh - 1)

Scripts == {"scope", "dpp", "top"}

Packaged(sc) == sc \in {"scope", "dpp"}

\* selectors of the configuration files of this part of the model
ConfigSelectors == { <<"0">>, <<"1">>, <<"0", ".", ".", "1">> }

\* values a group gives to one channel parameter (for instance dcoffset);
\* NoValue: the group does not define the parameter
ParamValues == {"a", "b"}

NoValue == "<absent>"

\* the value a parameter has after dig.cmd.reset()
ResetValue == "<reset>"

ConfigGroupDicts ==
    [channels : ConfigSelectors \cup {NoChannels}, chenable : BOOLEAN,
     par : ParamValues \cup {NoValue}]

ConfigGroupSeqs == UNION { [1..n -> ConfigGroupDicts] : n \in 0..MaxGroups }

\* str(param_value) of a YAML boolean
StrOfBool(b) == IF b THEN "True" ELSE "False"

\* The channels the device addresses by the path /ch/{chns}/par/...: one
\* channel "n" or the channels "a..b".
PathChannels(chns) ==
    IF ContainsDotDot(chns)
    THEN LET limits == SplitDotDot(chns)
         IN RangeChannels(IntOf(limits[1]), IntOf(limits[2])) \cap DevChannels
    ELSE {IntOf(chns)} \cap DevChannels

\* `"channel_list" in group_dict`: the resolver stored the list of the group
HasChannelList(group_dict) ==
    ParseGroup([channels |-> group_dict.channels,
                chenable |-> group_dict.chenable]).ok

GroupChannelList(group_dict) ==
    ParseGroup([channels |-> group_dict.channels,
                chenable |-> group_dict.chenable]).chans

\* `for param_name, param_value in group_dict.items()`: every key but
\* "channels" and "channel_list" is written as str(value), chenable included.
ApplyParams(chpar, group_dict) ==
    [chenable |-> StrOfBool(group_dict.chenable),
     par |-> IF group_dict.par = NoValue THEN chpar.par ELSE group_dict.par]

\* daq_scope.py and daq_dpppha.py of the package: one group is written to the
\* path of its selector; a group without "channels" is skipped.
ApplyGroupPackaged(dp, group_dict) ==
    IF group_dict.channels = NoChannels THEN dp
    ELSE [c \in DOMAIN dp |->
            IF c \in PathChannels(group_dict.channels)
            THEN ApplyParams(dp[c], group_dict) ELSE dp[c]]

\* top-level daq_scope.py, the inner loop for one channel: the groups that
\* have a channel_list containing the channel are applied in order.
RECURSIVE ApplyGroupsTop(_, _, _)
ApplyGroupsTop(chpar, ch_number, groups) ==
    IF groups = <<>> THEN chpar
    ELSE LET g == Head(groups)
             next == IF HasChannelList(g) /\ ch_number \in GroupChannelList(g)
                     THEN ApplyParams(chpar, g) ELSE chpar
         IN ApplyGroupsTop(next, ch_number, Tail(groups))

ConfigInit ==
    /\ AcqIdle
    /\ WebIdle
    /\ GuiIdle
    /\ script \in Scripts
    /\ config_file \in {"ok", "missing", "unparseable"}
    /\ channel_settings \in ConfigGroupSeqs
    /\ config_file # "ok" => channel_settings = <<>>
    /\ gi = 1
    /\ all_active_channels = {}
    /\ channel_list = <<>>
    /\ warned = {}
    /\ rpc = "loop"
    /\ cpc = "load"
    /\ cgi = 1
    /\ devpar = <<>>
    /\ devops = 0
    /\ cstatus = None

LoadConfigIgnored ==
    /\ cpc = "load"
    /\ config_file # "ok"
    /\ cpc' = "resolve"
    /\ UNCHANGED <<rvars, avars, wvars, gvars, script, config_file, cgi, devpar, devops,
                   cstatus>>

\* open(config_file) raises FileNotFoundError or yaml.safe_load raises
\* YAMLError: message, sys.exit(1).  (The top-level daq_scope.py does not
\* import sys: the NameError ends it with status 1 as well.)
LoadConfigFails ==
    /\ cpc = "load"
    /\ config_file # "ok"
    /\ cpc' = "exited"
    /\ cstatus' = 1
    /\ UNCHANGED <<rvars, avars, wvars, gvars, script, config_file, cgi, devpar, devops>>

LoadConfigOk ==
    /\ cpc = "load"
    /\ config_file = "ok"
    /\ cpc' = "resolve"
    /\ UNCHANGED <<rvars, avars, wvars, gvars, script, config_file, cgi, devpar, devops,
                   cstatus>>

\* The whole `for group_name, group_dict in channel_settings.items()` loop of
\* the resolver and `channel_list = sorted(list(all_active_channels))`.
ConfigResolve ==
    /\ cpc = "resolve"
    /\ LET ok == {g \in 1..Len(channel_settings) : HasChannelList(channel_settings[g])}
       IN /\ all_active_channels' =
                UNION {GroupChannelList(channel_settings[g]) : g \in ok}
          /\ warned' = (1..Len(channel_settings)) \ ok
    /\ channel_list' = SortedList(all_active_channels')
    /\ gi' = Len(channel_settings) + 1
    /\ rpc' = "done"
    /\ cpc' = "connect"
    /\ UNCHANGED <<avars, wvars, gvars, channel_settings, script, config_file, cgi,
                   devpar, devops, cstatus>>

\* device.connect, reset, the general settings; the scripts of the package
\* then set chenable of every channel to "FALSE".
ConfigConnect ==
    /\ cpc = "connect"
    /\ devpar' = [c \in DevChannels |->
                    [chenable |-> IF Packaged(script) THEN "FALSE" ELSE ResetValue,
                     par |-> ResetValue]]
    /\ devops' = devops + 1
    /\ cgi' = 1
    /\ cpc' = "groups"
    /\ UNCHANGED <<rvars, avars, wvars, gvars, script, config_file, cstatus>>

\* package: one iteration of the loop over the groups.
ConfigGroupPackaged ==
    /\ cpc = "groups" /\ Packaged(script)
    /\ cgi <= Len(channel_settings)
    /\ devpar' = ApplyGroupPackaged(devpar, channel_settings[cgi])
    /\ devops' = devops + 1
    /\ cgi' = cgi + 1
    /\ UNCHANGED <<rvars, avars, wvars, gvars, script, config_file, cpc, cstatus>>

\* top-level daq_scope.py: one iteration of `for ch in dig.ch`: chenable is
\* set to "FALSE", then the groups of the channel are applied.
ConfigChannelTop ==
    /\ cpc = "groups" /\ script = "top"
    /\ cgi <= NumCh
    /\ LET ch_number == cgi - 1 IN
          devpar' = [devpar EXCEPT ![ch_number] =
                        ApplyGroupsTop([@ EXCEPT !.chenable = "FALSE"],
                                       ch_number, channel_settings)]
    /\ devops' = devops + 1
    /\ cgi' = cgi + 1
    /\ UNCHANGED <<rvars, avars, wvars, gvars, script, config_file, cpc, cstatus>>

\* The configuration loop is over: endpoint, armacquisition,
\* swstartacquisition.
ConfigFinish ==
    /\ cpc = "groups"
    /\ cgi > (IF Packaged(script) THEN Len(channel_settings) ELSE NumCh)
    /\ devops' = devops + 1
    /\ cpc' = "done"
    /\ UNCHANGED <<rvars, avars, wvars, gvars, script, config_file, cgi, devpar, cstatus>>

ConfigNext ==
    \/ LoadConfigFails
    \/ LoadConfigOk
    \/ ConfigResolve
    \/ ConfigConnect
    \/ ConfigGroupPackaged
    \/ ConfigChannelTop
    \/ ConfigFinish

SpecConfig == ConfigInit /\ [][ConfigNext]_vars

(***************************************************************************)
(* Desktop GUI: DAQController of gui_interface.py.  The button handlers and *)
(* on_acquisition_end run on the Tk main thread, read_output runs in one    *)
(* daemon thread per subprocess.                                            *)
(***************************************************************************)
\* subprocesses started in one session of the GUI
MaxGuiProcs == 3

GuiInit == ResolverIdle /\ AcqIdle /\ WebIdle /\ ConfigIdle /\ GuiIdle

\* self.process and self.process.poll() is None
GuiRunning == gprocess # None /\ gprocess \in galive

\* on_acquisition_end: Start enabled, Stop disabled, self.process = None.
OnAcquisitionEnd ==
    /\ start_enabled' = TRUE
    /\ stop_enabled' = FALSE
    /\ gprocess' = None

\* Start button -> start_acquisition.  form: the entries pass the checks or
\* not; popen: subprocess.Popen returns or raises.
GuiStart(form, popen) ==
    /\ gpc = "idle"
    /\ start_enabled
    /\ gcount < MaxGuiProcs
    /\ IF GuiRunning
       THEN /\ gmsg' = "already running"
            /\ UNCHANGED <<gprocess, galive, gcount, start_enabled,
                           stop_enabled, gthreads>>
       ELSE IF form = "invalid"
       THEN /\ gmsg' = "invalid form"
            /\ UNCHANGED <<gprocess, galive, gcount, start_enabled,
                           stop_enabled, gthreads>>
       ELSE IF popen = "raises"
       THEN /\ gmsg' = "failed to start"
            /\ OnAcquisitionEnd
            /\ UNCHANGED <<galive, gcount, gthreads>>
       ELSE /\ gmsg' = "started"
            /\ gcount' = gcount + 1
            /\ gprocess' = gcount'
            /\ galive' = galive \cup {gcount'}
            /\ start_enabled' = FALSE
            /\ stop_enabled' = TRUE
            /\ gthreads' = Append(gthreads, [pc |-> "start", on |-> None])
    /\ UNCHANGED <<rvars, avars, wvars, cvars, gpending, gpc>>

\* Stop button -> stop_acquisition up to the end of process.wait(timeout=5):
\* the subprocess ends on SIGINT or is killed after the timeout.  Without a
\* running subprocess: the info dialog, Start enabled, Stop disabled.
GuiStopPress ==
    /\ gpc = "idle"
    /\ stop_enabled
    /\ IF GuiRunning
       THEN /\ \E how \in {"sigint", "kill"} : gmsg' = how
            /\ galive' = galive \ {gprocess}
            /\ gpc' = "stopping"
            /\ UNCHANGED <<start_enabled, stop_enabled>>
       ELSE /\ gmsg' = "no acquisition"
            /\ start_enabled' = TRUE
            /\ stop_enabled' = FALSE
            /\ UNCHANGED <<galive, gpc>>
    /\ UNCHANGED <<rvars, avars, wvars, cvars, gprocess, gcount, gthreads, gpending>>

\* stop_acquisition, `finally: self.on_acquisition_end()`
GuiStopEnd ==
    /\ gpc = "stopping"
    /\ OnAcquisitionEnd
    /\ gpc' = "idle"
    /\ UNCHANGED <<rvars, avars, wvars, cvars, galive, gcount, gthreads, gpending, gmsg>>

\* The acquisition script ends by itself (target, duration, error).
GuiProcExits(p) ==
    /\ p \in galive
    /\ galive' = galive \ {p}
    /\ UNCHANGED <<rvars, avars, wvars, cvars, gprocess, gcount, start_enabled,
                   stop_enabled, gthreads, gpending, gpc, gmsg>>

\* read_output evaluates self.process.<attr>: AttributeError ends the thread
\* when self.process is None, otherwise the thread goes on with the object
\* self.process refers to at that moment.
ThreadTakes(t, stage) ==
    gthreads' = [gthreads EXCEPT ![t] =
                    IF gprocess = None THEN [pc |-> "crashed", on |-> None]
                    ELSE [pc |-> stage, on |-> gprocess]]

\* `for line in self.process.stdout` starts
ThreadBegin(t) ==
    /\ t \in 1..Len(gthreads)
    /\ gthreads[t].pc = "start"
    /\ ThreadTakes(t, "stdout")
    /\ UNCHANGED <<rvars, avars, wvars, cvars, gprocess, galive, gcount,
                   start_enabled, stop_enabled, gpending, gpc, gmsg>>

\* stdout of the subprocess read so far is at its end:
\* `for line in self.process.stderr` starts
ThreadStdoutEof(t) ==
    /\ t \in 1..Len(gthreads)
    /\ gthreads[t].pc = "stdout"
    /\ gthreads[t].on \notin galive
    /\ ThreadTakes(t, "stderr")
    /\ UNCHANGED <<rvars, avars, wvars, cvars, gprocess, galive, gcount,
                   start_enabled, stop_enabled, gpending, gpc, gmsg>>

\* stderr is at its end: self.process.wait() is called
ThreadStderrEof(t) ==
    /\ t \in 1..Len(gthreads)
    /\ gthreads[t].pc = "stderr"
    /\ gthreads[t].on \notin galive
    /\ ThreadTakes(t, "wait")
    /\ UNCHANGED <<rvars, avars, wvars, cvars, gprocess, galive, gcount,
                   start_enabled, stop_enabled, gpending, gpc, gmsg>>

\* wait() returned: self.master.after(0, self.on_acquisition_end)
ThreadWaitReturns(t) ==
    /\ t \in 1..Len(gthreads)
    /\ gthreads[t].pc = "wait"
    /\ gthreads[t].on \notin galive
    /\ gthreads' = [gthreads EXCEPT ![t].pc = "done"]
    /\ gpending' = gpending \cup {t}
    /\ UNCHANGED <<rvars, avars, wvars, cvars, gprocess, galive, gcount,
                   start_enabled, stop_enabled, gpc, gmsg>>

\* The main loop runs the on_acquisition_end that thread t scheduled.
GuiCallback(t) ==
    /\ gpc = "idle"
    /\ t \in gpending
    /\ OnAcquisitionEnd
    /\ gpending' = gpending \ {t}
    /\ UNCHANGED <<rvars, avars, wvars, cvars, galive, gcount, gthreads, gpc, gmsg>>

GuiNext ==
    \/ \E form \in {"valid", "invalid"}, popen \in {"returns", "raises"} :
          GuiStart(form, popen)
    \/ GuiStopPress
    \/ GuiStopEnd
    \/ \E p \in 1..MaxGuiProcs : GuiProcExits(p)
    \/ \E t \in 1..MaxGuiProcs :
          \/ ThreadBegin(t)
          \/ ThreadStdoutEof(t)
          \/ ThreadStderrEof(t)
          \/ ThreadWaitReturns(t)
          \/ GuiCallback(t)

SpecGui == GuiInit /\ [][GuiNext]_vars

(***************************************************************************)
(* C1: the resolved channel list                                           *)
(***************************************************************************)
\* What a selector denotes according to the specification (sections 3, 4.1):
\* a single integer n -> {n}; "a..b" -> a..b; a list "a,b" -> {a, b}.
DenotedChannels(sel) ==
    IF sel \in SingleSelectors THEN {DigitVal(sel[1])}
    ELSE IF sel \in RangeSelectors THEN DigitVal(sel[1])..DigitVal(sel[Len(sel)])
    ELSE IF sel \in ListSelectors
         THEN {DigitVal(sel[i]) : i \in {j \in 1..Len(sel) : j % 2 = 1}}
    ELSE {}

EnabledGroups == {g \in 1..Len(channel_settings) : channel_settings[g].chenable}

IsSortedNoDup(l) == \A i \in 1..(Len(l) - 1) : l[i] < l[i + 1]

ListSet(l) == {l[i] : i \in 1..Len(l)}

AllSelectorsIn(S) ==
    \A g \in 1..Len(channel_settings) : channel_settings[g].channels \in S

Channels == SeqRange(channel_list)

\* the run has passed the clamp of buffer_size and entered the loop
Started == apc \notin {"idle", "setup"} /\ exit_reason # "typeerror"

\* events held in memory for channel ch
Fill(ch) == IF FrameMode(cfg.mode) THEN buffer_counter
            ELSE Len(buffers[ch].waveform)

\* the position of channel ch in channel_list (enumerate, counted from 1)
PositionOf(ch) == CHOOSE i \in 1..Len(channel_list) : channel_list[i] = ch

\* the rows a flush would hand to the storage for channel ch
Content(ch) == IF FrameMode(cfg.mode) THEN waveform_buffer[PositionOf(ch)]
               ELSE DppRows(buffers[ch])

\* events accepted from the source of channel ch
AcceptedFor(ch) == IF FrameMode(cfg.mode) THEN accepted ELSE buffers[ch].count

RowsIn(f, name, ch) ==
    IF name \in DOMAIN f /\ ch \in DOMAIN f[name] THEN f[name][ch] ELSE <<>>

RECURSIVE PersistedCount(_, _)
PersistedCount(names, ch) ==
    IF names = {} THEN 0
    ELSE LET n == CHOOSE x \in names : TRUE
         IN Len(RowsIn(files, n, ch)) + PersistedCount(names \ {n}, ch)

PersistedTags(ch) == UNION {SeqRange(RowsIn(files, n, ch)) : n \in DOMAIN files}

StoppedBy(reasons) == apc = "exited" /\ exit_reason \in reasons

StoppingConditions == {"target", "duration", "stop", "interrupt"}

FinalFlushes == {i \in 1..Len(flushlog) : flushlog[i].kind = "final"}

(***************************************************************************)
(* C2 .. C5, C7 .. C10                                                     *)
(***************************************************************************)
\* C2: after the loop ended on a stopping condition (target, duration, device
\* Stop, cancellation), for every active channel the events persisted over
\* all files of the run are exactly the accepted events: as many rows as
\* accepted events, and no event twice.
C2_AllAcceptedPersisted ==
    (StoppedBy(StoppingConditions) /\ cfg.save_enabled)
    => \A ch \in Channels :
          /\ PersistedCount(DOMAIN files, ch) = AcceptedFor(ch)
          /\ Cardinality(PersistedTags(ch)) = AcceptedFor(ch)

\* C3: when the loop is left on a stopping condition with a buffer that is
\* non-empty and below capacity, exactly one final flush has been performed
\* when the loop is Stopped.
C3_OneFinalFlush ==
    (StoppedBy(StoppingConditions) /\ cfg.save_enabled /\ Channels # {}
       /\ 0 < left_with /\ left_with < buffer_size)
    => Cardinality(FinalFlushes) = 1

\* C4: the events held in memory for a channel, and the shared counter of
\* events since the last flush, never exceed buffer_size (stated here for the
\* runs with a capacity of at least one event).
C4_WithinCapacity ==
    (Started /\ buffer_size >= 1)
    => /\ buffer_counter <= buffer_size
       /\ \A ch \in Channels : Fill(ch) <= buffer_size

\* C5: on every exit of the loop, disarmacquisition was issued and the
\* device connection is released.
C5_DisarmedOnExit ==
    (Started /\ apc = "exited") => (dev.disarmed /\ ~dev.connected)

\* C7: every rotation names the file with a timestamp suffix strictly later
\* than the suffix of every earlier file of the run.
C7_FreshSuffix ==
    \A i, j \in 1..Len(opened) : i < j => opened[i] < opened[j]

\* C8: a flush that leaves the file at or above the threshold is followed by
\* a flush into a different file, and no flush starts writing into a file
\* that is already at or above the threshold.
C8_ThresholdAfterFlush ==
    /\ \A i \in 1..(Len(flushlog) - 1) :
          (flushlog[i].postsize >= cfg.max_file_size)
             => flushlog[i + 1].file # flushlog[i].file
    /\ \A i \in 1..Len(flushlog) : flushlog[i].presize < cfg.max_file_size

\* The rows channel ch held before the step are appended to the current file
\* by the step.
ChannelWritten(ch) ==
    /\ Content(ch) # <<>>
    /\ RowsIn(files', current_file, ch) = RowsIn(files, current_file, ch) \o Content(ch)

ChannelUntouched(ch) ==
    /\ Fill(ch)' = Fill(ch)
    /\ Content(ch)' = Content(ch)

\* C9: a flush in which a write raises leaves fill count and content of every
\* channel that was not written unchanged, and the fill of a channel goes
\* down only in a step that wrote the channel's rows to the file.
C9_ClearAfterConfirm ==
    [][ (Started /\ cfg.save_enabled)
        => \A ch \in Channels :
              /\ (exit_reason' = "storage" /\ exit_reason = "")
                    => (ChannelWritten(ch) \/ ChannelUntouched(ch))
              /\ (Fill(ch)' < Fill(ch)) => ChannelWritten(ch) ]_vars

\* A flush failed at its second channel: the first channel was written and
\* (dpp) cleared, the second still holds its events.
C9_Witness ==
    /\ StoppedBy({"storage"})
    /\ cfg.mode = "dpp"
    /\ channel_list = <<0, 1>>
    /\ buffers[0].waveform = <<>> /\ buffers[0].count > 0
    /\ Len(buffers[1].waveform) > 0
    /\ PersistedCount(DOMAIN files, 0) = buffers[0].count
    /\ PersistedCount(DOMAIN files, 1) = 0

\* C10: the capacity is n_events when n_events is given and smaller than
\* the configured buffer_size and the configured buffer_size otherwise; with
\* 1 <= n_events < configured buffer_size a run never flushes twice, and a
\* run that ends on the target has flushed exactly once, n_events events.
C10_ClampedSingleFlush ==
    Started
    => /\ buffer_size =
            IF cfg.total_events # None /\ cfg.total_events < cfg.buffer_size
            THEN cfg.total_events ELSE cfg.buffer_size
       /\ (cfg.total_events # None /\ 1 <= cfg.total_events
             /\ cfg.total_events < cfg.buffer_size /\ Channels # {})
            => /\ Len(flushlog) <= 1
               /\ (StoppedBy({"target"}) /\ cfg.save_enabled)
                    => /\ Len(flushlog) = 1
                       /\ flushlog[1].ok
                       /\ flushlog[1].events = cfg.total_events

(***************************************************************************)
(* C11 .. C18: stopping conditions, timeouts and errors of the loop        *)
(***************************************************************************)
\* the setup of the run is over: the loop was entered or the script has ended
SetupOver == apc \notin {"idle", "setup"}

\* C11: in every script, a run without a target event count starts normally
\* (the setup does not end the script), its capacity is the configured
\* buffer_size, and it never stops on the event count; a run without a max
\* duration never stops on the duration.
C11_UnsetNeverStops ==
    /\ (SetupOver /\ cfg.total_events = None)
          => /\ exit_reason # "typeerror"
             /\ buffer_size = cfg.buffer_size
             /\ exit_reason # "target"
    /\ (SetupOver /\ cfg.max_duration = None) => exit_reason # "duration"


\* every frame the device delivers has the shape the loop accepts
ValidFrames == FrameMode(cfg.mode) => cfg.tot_channels >= Len(channel_list)

\* C12: with a target of N >= 1 events and a device that delivers valid
\* events, the loop never accepts more than N events, reads again only while
\* fewer than N are accepted, and has accepted exactly N when it stops on the
\* target.
C12_ExactlyTarget ==
    (Started /\ cfg.total_events # None /\ cfg.total_events >= 1
       /\ Channels # {} /\ ValidFrames)
    => /\ accepted <= cfg.total_events
       /\ (apc = "read") => accepted < cfg.total_events
       /\ StoppedBy({"target"}) => accepted = cfg.total_events

\* C13: in a run with active channels and a max duration, once the elapsed
\* time has reached the duration the loop eventually terminates, whatever the
\* device delivers.
C13_DurationTerminates ==
    [] ( (Started /\ Channels # {} /\ DurationReached(cfg.max_duration, now))
           => <>(apc = "exited") )

\* C14: no read_data call of a running loop waits longer than a finite
\* timeout (one second, the timeout of the frame-mode loop), in the
\* frame-mode and in the per-channel-mode loop.
C14_ReadBounded ==
    (Started /\ apc = "read") => blocked <= TimeoutTicks(1000)

\* the loop's count of events: event_counter in the top-level daq_scope.py,
\* trigger_id in daq_dpppha.py.  (In the daq_scope.py of the package trigger_id
\* is the device's number of the last frame and has no value before the first
\* frame.)
HasEventCounter == cfg.mode \in {"top", "dpp"}

\* the slots of channel ch that hold an event
Slots(ch) ==
    IF FrameMode(cfg.mode) THEN 1..buffer_counter
    ELSE 1..Len(buffers[ch].waveform)

\* C15: a read that ends in a timeout changes neither the event counters nor
\* the buffer fill counter nor any buffer content; the successful read that
\* follows a timeout stores one event (one slot of the frame buffer, one
\* list entry of the event's channel), raises the fill counter by one, and
\* when the loop is back at read_data its event counter is the number of
\* successful reads, the timed-out reads not counted.
C15_TimeoutNoEffect ==
    [][ Started =>
        /\ (apc = "read" /\ last_read' = "timeout" /\ apc' = "read")
              => UNCHANGED <<event_counter, trigger_id, buffer_counter,
                             waveform_buffer, buffers, accepted>>
        /\ (last_read = "timeout" /\ last_read' = "event" /\ apc' = "full")
              => /\ buffer_counter' = buffer_counter + 1
                 /\ accepted' = accepted + 1
                 /\ IF FrameMode(cfg.mode)
                    THEN \A ch \in Channels :
                            /\ Content(ch)'[buffer_counter + 1].ev = accepted'
                            /\ \A k \in Slots(ch) :
                                  Content(ch)'[k] = Content(ch)[k]
                    ELSE \E ch \in Channels :
                            /\ buffers'[ch].waveform =
                                  Append(buffers[ch].waveform, accepted')
                            /\ \A o \in Channels \ {ch} : buffers'[o] = buffers[o]
        /\ (HasEventCounter /\ apc' = "read")
              => TargetCounter' = accepted'
      ]_vars

\* A read timed out, the next read delivered an event, and the loop is back
\* at read_data with one event counted.
C15_Witness ==
    /\ apc = "read" /\ HasEventCounter
    /\ last_read = "event" /\ prev_read = "timeout"
    /\ accepted = 1 /\ TargetCounter = 1 /\ buffer_counter = 1
    /\ flushlog = <<>>

FailedFlushes == {i \in 1..Len(flushlog) : ~flushlog[i].ok}

\* C16: a read that ends in the device's Stop code ends the run with exit
\* status 0; a read that ends in any other device error, and a flush in which
\* a write fails, end the run at once (no further read, no further flush)
\* with a non-zero exit status.
C16_StopCleanErrorsFatal ==
    /\ (Started /\ last_read = "stop")
          => (StoppedBy({"stop"}) /\ exit_status = 0)
    /\ (Started /\ last_read = "fatal")
          => (StoppedBy({"fatal"}) /\ exit_status \notin {0, None})
    /\ (Started /\ FailedFlushes # {})
          => /\ StoppedBy({"storage"}) /\ exit_status \notin {0, None}
             /\ FailedFlushes = {Len(flushlog)}
    /\ StoppedBy({"stop"}) => last_read = "stop"
    /\ StoppedBy({"fatal"}) => last_read = "fatal"
    /\ StoppedBy({"storage"}) => FailedFlushes # {}

\* The per-channel script accepted two events, then read_data raised an error
\* that is neither TIMEOUT nor STOP: exit status 1.
C16_Witness ==
    /\ StoppedBy({"fatal"}) /\ cfg.mode = "dpp"
    /\ accepted = 2
    /\ exit_status = 1

\* C17: a run with an output file that ends on a fatal device error or on a
\* failed flush while events are still buffered has attempted a final flush
\* before it ended.
C17_BestEffortFlush ==
    (StoppedBy({"fatal", "storage"}) /\ cfg.save_enabled /\ Channels # {}
       /\ left_with > 0)
    => FinalFlushes # {}

\* C18: a run whose resolved active channel list is empty never starts: the
\* device is never connected, armed or read, and the script ends with a
\* configuration error.
C18_EmptySetNeverStarts ==
    (cfg.mode # "none" /\ rpc = "done" /\ channel_list = <<>>)
    => /\ ~dev.connected /\ ~dev.armed
       /\ last_read = "none"
       /\ apc \in {"setup", "exited"}
       /\ (apc = "exited") => exit_status \notin {0, None}

(***************************************************************************)
(* C19, C20: groups that contribute nothing                                *)
(***************************************************************************)
\* C19: every channel of the active channel set, during and after the
\* resolution, is a channel of an enabled group: a disabled group contributes
\* none, whatever its selector and whatever the other groups are.
C19_DisabledContributeNothing ==
    \A c \in all_active_channels \cup ListSet(channel_list) :
        \E g \in EnabledGroups :
            c \in DenotedChannels(channel_settings[g].channels)

\* A disabled group "0..3" and an enabled group "5": only channel 5 is active.
C19_Witness ==
    /\ rpc = "done"
    /\ channel_settings = << [channels |-> <<"0", ".", ".", "3">>, chenable |-> FALSE],
                             [channels |-> <<"5">>, chenable |-> TRUE] >>
    /\ channel_list = <<5>>
    /\ warned = {1}

\* the groups C20 is about: the selector is missing, or is neither an integer
\* nor start..end with two integers and start <= end
MalformedGroups ==
    {g \in 1..Len(channel_settings) :
        channel_settings[g].channels \notin SingleSelectors \cup RangeSelectors}

\* C20: a malformed group gets a message that names it as soon as the loop
\* has visited it, the loop visits every group, and the resolved list is the
\* one of the mapping without the malformed groups: the channels of the
\* enabled well-formed groups.
C20_MalformedSkipped ==
    /\ \A g \in MalformedGroups : g < gi => g \in warned
    /\ rpc = "done"
          => /\ gi = Len(channel_settings) + 1
             /\ ListSet(channel_list) =
                  UNION {DenotedChannels(channel_settings[g].channels) :
                           g \in EnabledGroups \ MalformedGroups}

\* A range with start > end comes first, a valid group follows it: the first
\* group is reported, the second one is resolved.
C20_Witness ==
    /\ rpc = "done"
    /\ channel_settings = << [channels |-> <<"2", ".", ".", "1">>, chenable |-> TRUE],
                             [channels |-> <<"0", ".", ".", "3">>, chenable |-> TRUE] >>
    /\ warned = {1}
    /\ channel_list = <<0, 1, 2, 3>>

(***************************************************************************)
(* C21 .. C30                                                              *)
(***************************************************************************)
\* the channels a selector of the configuration file stands for
SelectorChannels(sel) ==
    IF sel = <<"0">> THEN {0}
    ELSE IF sel = <<"1">> THEN {1}
    ELSE IF sel = <<"0", ".", ".", "1">> THEN {0, 1}
    ELSE {}

\* the enabled groups that contain channel c and define the parameter
DefiningGroups(c) ==
    {g \in 1..Len(channel_settings) :
        /\ channel_settings[g].chenable
        /\ c \in SelectorChannels(channel_settings[g].channels)
        /\ channel_settings[g].par # NoValue}

LastOf(S) == CHOOSE g \in S : \A h \in S : h <= g

ConfigDone == cpc = "done"

\* C21: after configuration the parameter of every active channel has the
\* value of the last enabled group that contains the channel and defines the
\* parameter; disabled groups and groups without the channel change nothing.
C21_LastEnabledGroupWins ==
    ConfigDone =>
        \A c \in all_active_channels :
            /\ DefiningGroups(c) # {} =>
                 devpar[c].par = channel_settings[LastOf(DefiningGroups(c))].par
            /\ DefiningGroups(c) = {} => devpar[c].par = ResetValue

\* C29: with a missing or unparseable configuration file the script never
\* touches the device (no connect, reset, write, arm or read) and ends with a
\* non-zero exit status.
C29_BadConfigNoDevice ==
    config_file # "ok" =>
        /\ devops = 0
        /\ devpar = <<>>
        /\ cpc \in {"load", "exited"}
        /\ cpc = "exited" => cstatus \notin {None, 0}

C29_Witness == config_file \in {"missing", "unparseable"} /\ cpc = "exited"

\* C22: in per-channel mode the buffer-full flush happens as soon as the
\* shared counter of events since the last flush equals buffer_size: after the
\* buffer-full test the counter is below buffer_size, and every buffer-full
\* flush hands exactly buffer_size events to the storage, however they are
\* spread over the channels.
C22_FlushAtBufferSize ==
    (Started /\ cfg.mode = "dpp" /\ buffer_size >= 1)
    => /\ apc \in {"stop", "read"} => buffer_counter < buffer_size
       /\ \A i \in 1..Len(flushlog) :
             flushlog[i].kind = "full" => flushlog[i].events = buffer_size

\* the events of channel ch a flush would see as held: the rows below the
\* fill counter (frame mode), the list of the channel (per-channel mode)
Held(ch) ==
    IF FrameMode(cfg.mode) THEN SubSeq(Content(ch), 1, buffer_counter)
    ELSE buffers[ch].waveform

\* a step that handles a full buffer
Drain ==
    /\ apc = "full"
    /\ BufferFull(cfg.mode, buffer_counter, buffer_size)
    /\ apc' = "stop"

\* C23: after every handling of a full buffer the shared counter is zero and
\* no channel holds an event any more, with and without an output file.
C23_DrainEmpties ==
    [][ Drain => /\ buffer_counter' = 0
                 /\ \A ch \in Channels : Held(ch)' = <<>> ]_vars

\* a step of the frame-mode loop in which read_data returned a frame
FrameRead ==
    /\ FrameMode(cfg.mode)
    /\ apc = "read"
    /\ dev_next_id' = dev_next_id + 1

\* C24: a frame with fewer rows than the active channels need is discarded
\* (no slot filled, fill counter unchanged, the loop goes on with the next
\* read), and a frame that is not discarded has a row for every active
\* channel, so that indexing it raises no error.
C24_MismatchDiscarded ==
    [][ FrameRead =>
          IF cfg.tot_channels < Len(channel_list)
          THEN /\ last_read' = "discarded"
               /\ buffer_counter' = buffer_counter
               /\ waveform_buffer' = waveform_buffer
               /\ apc' = "read"
          ELSE \A ch \in Channels : ch < cfg.tot_channels ]_vars

\* C25: in the GUI no subprocess is started while an earlier one is alive,
\* and the on_acquisition_end scheduled by the reader thread of an earlier
\* subprocess neither clears self.process nor enables Start while a later
\* subprocess is running.
C25_OneSubprocessNoStaleEnd ==
    [][ /\ Cardinality(galive') <= 1
        /\ \A t \in gpending \ gpending' :
              (GuiRunning /\ t < gprocess)
                 => (gprocess' = gprocess /\ start_enabled' = start_enabled) ]_vars

\* the place of an operation in the order reset, parameter configuration,
\* endpoint selection, arm, start, event reads, disarm
OpRank(op) ==
    CASE op = "connect" -> 1
      [] op = "reset" -> 2
      [] op = "configure" -> 3
      [] op = "endpoint" -> 4
      [] op = "arm" -> 5
      [] op = "start" -> 6
      [] op = "read" -> 7
      [] op = "disarm" -> 8
      [] op = "close" -> 9

\* operation a was issued before the i-th entry of the list of operations
IssuedBefore(a, i) == \E j \in 1..(i - 1) : dev.ops[j] = a

\* C26: the operations of a run are issued in the order reset, configuration,
\* endpoint, arm, start, reads, disarm: a read only after arm and start and
\* never after disarm, no configuration write after arm.
C26_DeviceOrder ==
    /\ \A i, j \in 1..Len(dev.ops) :
          i < j => OpRank(dev.ops[i]) < OpRank(dev.ops[j])
    /\ \A i \in 1..Len(dev.ops) :
          /\ dev.ops[i] = "read"
                => /\ IssuedBefore("arm", i)
                   /\ IssuedBefore("start", i)
                   /\ ~IssuedBefore("disarm", i)
          /\ dev.ops[i] = "configure" => ~IssuedBefore("arm", i)

C26_Witness ==
    /\ StoppedBy({"target"})
    /\ dev.ops = <<"connect", "reset", "configure", "endpoint", "arm", "start",
                   "read", "disarm", "close">>

C28_ListsInStep ==
    [][ cfg.mode = "dpp" =>
          \A ch \in DOMAIN buffers' :
             /\ \A key \in ListKeys :
                   Len(buffers'[ch][key]) = Len(buffers'[ch].waveform)
             /\ (RowsIn(files', current_file, ch) # RowsIn(files, current_file, ch))
                   => \A key \in ListKeys : buffers'[ch][key] = <<>> ]_vars

\* a channel was flushed and is empty while the other channel holds events
C28_Witness ==
    /\ cfg.mode = "dpp"
    /\ channel_list = <<0, 1>>
    /\ PersistedCount(DOMAIN files, 0) > 0
    /\ \A key \in ListKeys : buffers[0][key] = <<>>
    /\ \A key \in ListKeys : Len(buffers[1][key]) = 2

\* the slot holds row c of a frame and the timestamp of that same frame (as
\* the script stores it: counted from the start of the run in the package)
RowOfChannel(cell, c) ==
    /\ cell.ev >= 1
    /\ cell.row = c
    /\ cell.ts = (IF cfg.mode = "top" THEN 0 ELSE StartTimestamp) + cell.ev

\* C27: in frame mode every slot stored at the position of active channel c,
\* and every row written under the file group of channel c, is row c of a
\* device frame together with the timestamp of that frame; the file has
\* groups of active channels only.
C27_RowOfItsChannel ==
    (Started /\ FrameMode(cfg.mode)) =>
        /\ \A i \in DOMAIN waveform_buffer :
              \A k \in DOMAIN waveform_buffer[i] :
                 waveform_buffer[i][k] # ZeroCell
                    => RowOfChannel(waveform_buffer[i][k], channel_list[i])
        /\ \A n \in DOMAIN files :
              \A c \in DOMAIN files[n] :
                 /\ c \in Channels
                 /\ \A k \in 1..Len(files[n][c]) : RowOfChannel(files[n][c][k], c)

\* channel 1 alone is active on a device with two channels: rows of two
\* frames were written under its group
C27_Witness ==
    /\ cfg.mode = "scope"
    /\ channel_list = <<1>>
    /\ cfg.tot_channels = 2
    /\ \E n \in DOMAIN files : 1 \in DOMAIN files[n] /\ Len(files[n][1]) = 2

(***************************************************************************)
(* C31 .. C38                                                              *)
(***************************************************************************)
\* the device takes the written text as "channel enabled"
DeviceEnabled(text) == text \in {"True", "TRUE"}

\* C31: after the configuration phase of the scripts of the package the
\* channels enabled on the device are exactly the resolved active channels.
C31_EnabledEqualsActive ==
    (ConfigDone /\ Packaged(script))
    => {c \in DevChannels : DeviceEnabled(devpar[c].chenable)} = all_active_channels

\* the rows of channel ch over the files `names`, in the order of the file names
RECURSIVE RowsOver(_, _)
RowsOver(names, ch) ==
    IF names = <<>> THEN <<>>
    ELSE RowsIn(files, Head(names), ch) \o RowsOver(Tail(names), ch)

AllRows(ch) == RowsOver(SortedList(DOMAIN files), ch)

\* C32: in per-channel mode the event numbers written for a channel over all
\* flushes of a run are 0, 1, 2, ... in the order the events were read, without
\* a gap and without a repetition.
C32_EventNumbersContiguous ==
    (Started /\ cfg.mode = "dpp")
    => \A ch \in SeqRange(channel_list) :
          \A k \in 1..Len(AllRows(ch)) :
             /\ AllRows(ch)[k].eventnumber = k - 1
             /\ k > 1 => AllRows(ch)[k - 1].ev < AllRows(ch)[k].ev

\* two flushes have written a channel of a run with two channels
C32_Witness ==
    /\ Started /\ cfg.mode = "dpp" /\ Len(channel_list) = 2
    /\ Len(flushlog) >= 2
    /\ \E ch \in SeqRange(channel_list) :
          /\ Len(AllRows(ch)) >= 2
          /\ buffers[ch].count > Len(AllRows(ch))
          /\ \E n \in DOMAIN files :
                /\ Len(RowsIn(files, n, ch)) >= 1
                /\ RowsIn(files, n, ch)[1].eventnumber >= 1

\* C33: in frame mode every flush hands buffer_size events of every active
\* channel to one file, so in every output file the groups of all active
\* channels hold the same number of events, a multiple of buffer_size.
C33_EqualGroups ==
    (Started /\ FrameMode(cfg.mode))
    => \A n \in DOMAIN files :
          \A ch \in SeqRange(channel_list) :
             /\ Len(RowsIn(files, n, ch)) % buffer_size = 0
             /\ \A other \in SeqRange(channel_list) :
                   Len(RowsIn(files, n, ch)) = Len(RowsIn(files, n, other))

\* the temperature rows in the files of the run
TemperatureRows == UNION {SeqRange(RowsIn(files, n, DigGroup)) : n \in DOMAIN files}

\* C34: with temperature logging and saving enabled there is one temperature
\* row per accepted event, either in the buffer or in a file; the buffer holds
\* the rows of the events read since the last buffer-full handling, never
\* more; and a file holds as many temperature rows as events of a channel
\* when every write of the run returned.
C34_TemperatureRows ==
    (Started /\ cfg.save_temperature /\ cfg.save_enabled)
    => /\ Len(temperature_buffer) <= buffer_counter
       /\ Cardinality(TemperatureRows \cup SeqRange(temperature_buffer)) = accepted
       /\ (\A i \in 1..Len(flushlog) : flushlog[i].ok)
          => \A n \in DOMAIN files : \A ch \in SeqRange(channel_list) :
                Len(RowsIn(files, n, DigGroup)) = Len(RowsIn(files, n, ch))

\* C35: an exit message or an end-of-stream sentinel in the log queue was put
\* by the reader thread of the subprocess started last, never by the reader
\* thread of an earlier one.
C35_NoStaleEnd ==
    \A i \in 1..Len(output_queue) :
       output_queue[i].kind \in {"exit", "sentinel"}
          => output_queue[i].run = daq_process

\* the step in which thread t answers its start request with `code`
StartAnswered(t, code) ==
    /\ req[t].kind = "start" /\ req[t].resp = None
    /\ req'[t].resp = code

\* C37: the step that answers a start request with 409 or 400 spawns no
\* subprocess and leaves daq_process, the log queue and
\* last_output_file_basename as they were.
C37_RejectedUnchanged ==
    [][\A t \in Threads :
          (StartAnswered(t, 409) \/ StartAnswered(t, 400))
             => UNCHANGED <<daq_process, procs, readers, output_queue,
                            last_output_file_basename>>]_vars

\* the step in which thread t answers its stop request
StopAnswered(t) ==
    /\ req[t].kind = "stop" /\ req[t].resp = None
    /\ req'[t].resp # None

\* C38: a subprocess is sent SIGINT and the kill only while it is the running
\* subprocess; it is killed only by a stop request that sent it SIGINT before
\* and whose wait ended with the subprocess still alive; a subprocess that
\* was sent the kill ends; a stop request that finds no subprocess running
\* sends no signal and changes nothing but its own answer.
C38_InterruptThenKill ==
    /\ [][/\ \A p \in 1..Len(procs) :
                /\ procs'[p].killed => procs[p].sigint
                /\ (procs'[p].killed /\ ~procs[p].killed)
                      => /\ procs[p].state = "alive" /\ p = daq_process
                         /\ \E t \in Threads :
                               req[t].pc = "wait" /\ StopAnswered(t)
                /\ (procs'[p].sigint /\ ~procs[p].sigint)
                      => procs[p].state = "alive" /\ p = daq_process
          /\ \A t \in Threads :
                (StopAnswered(t) /\ ~req[t].saw_alive /\ ~req'[t].saw_alive)
                   => UNCHANGED <<daq_process, procs, readers, output_queue,
                                  last_output_file_basename>>]_vars
    /\ \A p \in 1..MaxProcs :
          (p <= Len(procs) /\ procs[p].killed)
             ~> (p <= Len(procs) /\ procs[p].state = "exited")

\* a subprocess was interrupted, killed after the wait and has ended, and a
\* stop request found nothing running
C38_Witness ==
    /\ \E p \in 1..Len(procs) :
          procs[p].sigint /\ procs[p].killed /\ procs[p].state = "exited"
    /\ \E t \in Threads :
          req[t].kind = "stop" /\ req[t].resp # None /\ ~req[t].saw_alive

\* C36: the reader thread of a subprocess that ends when its output is taken
\* puts the exit message and the end-of-stream sentinel.
C36_ReaderFinishes ==
    (pipe.sub = "running") ~> (pipe.rd = "done")

(***************************************************************************)
(* C6                                                                      *)
(***************************************************************************)
StartRequests == {t \in Threads : req[t].kind = "start"}

\* C6: under every interleaving of start and stop requests at most one
\* spawned subprocess is alive (and it is the one daq_process refers to),
\* and a start request that finds the subprocess alive is answered 409 and
\* spawns nothing.
C6_SingleSubprocess ==
    /\ Cardinality(AliveProcs) <= 1
    /\ \A p \in AliveProcs : p = daq_process
    /\ \A t \in StartRequests :
          req[t].saw_alive => (req[t].resp = 409 /\ req[t].spawned = None)

\* A start request was answered 409 while the subprocess of an earlier start
\* is alive and a stop request waits for the lock.
C6_Witness ==
    \E t, u, v \in Threads :
        /\ req[t].kind = "start" /\ req[t].resp = 409
        /\ req[u].kind = "start" /\ req[u].spawned # None
        /\ req[v].kind = "stop" /\ req[v].pc = "waitlock"
        /\ Cardinality(AliveProcs) = 1

====
